---- MODULE Spec2Model ----
(***************************************************************************)
(* Model of the transport supervisor SidecarManager                        *)
(* (apps/desktop/src-tauri/src/sidecar.rs): the pending-request table, the *)
(* writer task and reader thread of every attached transport, the retry    *)
(* loop of send_command, and the start / stop / is_running lifecycle.      *)
(*                                                                         *)
(* Granularity: one action per stretch of code between two suspension      *)
(* points whose interleaving with the other tasks can be observed.         *)
(***************************************************************************)
EXTENDS Integers, Sequences, FiniteSets, TLC

(***************************************************************************)
(* Bounds of the model.                                                    *)
(***************************************************************************)
\* Largest value request_counter may reach (the u64 counter never wraps in
\* practice; allocation is disabled beyond the bound).
MaxRequests == 3
\* Number of transports attach_io may bind over the supervisor's lifetime,
\* in the specifications without a restart and in those with restarts.
MaxStarts == 1
MaxTransports == 2
\* Capacity of the writer channel, scaled down from mpsc::channel(100).
ChannelCapacity == 1
\* Number of events the event handler is invoked for.
MaxEvents == 2
MaxOps == 3
MaxFileOps == 3
MaxServiceOps == 2

(***************************************************************************)
(* Program constants.                                                      *)
(***************************************************************************)
DEFAULT_RETRY_ATTEMPTS == 3

Callers == {"c1", "c2"}
Starters == {"s1", "s2"}
\* Inputs of send_command: the command name and the microsecond clock.
Commands == {"ping"}
ClockReadings == {0}
Gens == 1..MaxTransports
Ids == 1..MaxRequests

\* Option::None for the daemon token and for the authToken of a request.
NoToken == "none"
\* Content of the daemon token file.
DaemonToken == "tok"

(***************************************************************************)
(* Error strings of send_command_once and stop.                            *)
(***************************************************************************)
ErrNotHealthy == "Transport writer is not healthy - please restart the application"
ErrNotRunning == "Transport is not running"
ErrSendFailed == "Failed to send to transport: channel closed"
ErrTimeout == "Request timed out after 300s"
ErrChannelClosed == "Response channel closed"
ErrStopped == "Transport stopped"
ErrUnknown == "Unknown error"

\* Errors of start_daemon_transport: no connection after the daemon was
\* spawned, a token file that cannot be read or is empty, no packaged daemon
\* binary (resolve_sidecar_dir).
ErrUnreachable == "Failed to connect to daemon endpoint"
ErrToken == "Failed to read daemon auth token"
ErrNoBinary == "Unable to locate packaged binary cowork-agentd"
DaemonErrors == {ErrUnreachable, ErrToken, ErrNoBinary}
NoError == ""

\* Error texts a worker may put into a success=false response.
WorkerErrors == {"Invalid session", "Tool timed out"}

(***************************************************************************)
(* str::to_lowercase and str::contains, computed character by character.   *)
(***************************************************************************)
UpperChars == <<"A","B","C","D","E","F","G","H","I","J","K","L","M",
                "N","O","P","Q","R","S","T","U","V","W","X","Y","Z">>
LowerChars == <<"a","b","c","d","e","f","g","h","i","j","k","l","m",
                "n","o","p","q","r","s","t","u","v","w","x","y","z">>

LowerChar(ch) ==
    IF \E i \in 1..26 : UpperChars[i] = ch
    THEN LowerChars[CHOOSE i \in 1..26 : UpperChars[i] = ch]
    ELSE ch

RECURSIVE to_lowercase(_)
to_lowercase(s) ==
    IF Len(s) = 0 THEN ""
    ELSE LowerChar(SubSeq(s, 1, 1)) \o to_lowercase(SubSeq(s, 2, Len(s)))

contains(s, pat) ==
    \E i \in 1..(Len(s) - Len(pat) + 1) : SubSeq(s, i, i + Len(pat) - 1) = pat

\* Mutant of is_retryable_transport_error: also retries the synthetic stop error.
is_retryable_transport_error_stop(error) ==
    LET normalized == to_lowercase(error)
    IN  \/ contains(normalized, "timed out")
        \/ contains(normalized, "failed to send to transport")
        \/ contains(normalized, "transport is not running")
        \/ contains(normalized, "response channel closed")
        \/ contains(normalized, "transport stopped")

is_retryable_transport_error(error) ==
    LET normalized == to_lowercase(error)
    IN  \/ contains(normalized, "timed out")
        \/ contains(normalized, "failed to send to transport")
        \/ contains(normalized, "transport is not running")
        \/ contains(normalized, "response channel closed")

(***************************************************************************)
(* State.                                                                  *)
(***************************************************************************)
VARIABLES
    \* ---- fields of SidecarManager ----
    mode,              \* TransportMode
    process,           \* Option<Child>: 0 = None, g = child spawned for transport g
    tx,                \* Option<mpsc::Sender>: 0 = None, g = sender of transport g
    pending_requests,  \* HashMap id -> oneshot::Sender, the sender named by its waiter
    request_counter,   \* u64 counter of request ids
    stdin_healthy,     \* writer health flag
    daemon_auth_token, \* Option<String>
    daemon_process,    \* Option<Child> of the daemon: 0 = None, 1 = Some(child)
    daemonAlive,       \* a daemon process spawned by the supervisor is running
    \* ---- the transports bound by attach_io, in order of attachment ----
    ngen,              \* number of transports attached so far
    queue,             \* per transport: lines in the mpsc channel
    writerAlive,       \* per transport: writer task running (receiver not dropped)
    readerAlive,       \* per transport: reader thread running
    peerAlive,         \* per transport: worker process / daemon connection alive
    inbound,           \* per transport: the line the reader thread is reading
    wire,              \* per transport: request lines written by the writer task
    \* ---- callers of send_command ----
    pc,                \* position of each caller
    key,               \* idempotency_key of the call
    attempt,           \* loop variable of send_command
    last_error,        \* last_error of send_command
    id,                \* id of the running send_command_once (0 outside)
    auth,              \* auth_token of the running send_command_once
    rx,                \* oneshot receiver of the running send_command_once
    result,            \* value returned by the last send_command
    \* ---- callers of start and stop ----
    spc,               \* position of each caller of start
    stopPc,            \* position of the caller of stop
    daemon_err,        \* Err(err) of start_daemon_transport held by start
    \* ---- history ----
    issued,            \* request ids in order of allocation
    quiet,             \* no call of start has been running since the last stop began
    returned,          \* the callers of start that a call has returned Ok to
    handled,           \* the invocations of the event handler, in order
    \* ---- event dispatch ----
    event_handler,     \* Option<Box<dyn Fn>>: 0 = None, otherwise the handler
    handling,          \* per transport: the reader thread is inside the handler
    \* ---- the envelope of send_command, on JSON values ----
    call_params,       \* argument params of send_command
    call_key,          \* the string send_command formats at entry
    retry,             \* loop variable attempt of the call (0 before the loop)
    observed,          \* params of the request line of the running attempt
    \* ---- the credential vault ----
    vault_file,        \* credentials of credentials.vault.json: key -> ciphertext
    plaintext_file,    \* credentials of the legacy credentials.json, None if absent
    cpc,               \* position of each task running a credential command
    cop,               \* the command of each task and its arguments
    cstore,            \* the store each task has read from the vault file
    cresult,           \* the value the last command of each task returned
    nops,              \* number of commands entered
    seeds_out,         \* the connector seeds returned so far
    env_parent,        \* COWORK_CONNECTOR_SECRET_KEY of the supervisor, if set
    child_env,         \* COWORK_CONNECTOR_SECRET_KEY of the last child spawned
    \* ---- the file commands ----
    fs_dirs,           \* the directories that exist
    fs_files,          \* the regular files that exist
    touched,           \* what the commands have done to the file system, and where
    nfile,             \* number of file commands run
    fresult,           \* the value the last file command returned
    \* ---- the service commands ----
    home_ok,           \* dirs::home_dir answers and ~/.cowork can be created
    state_writable,    \* ~/.cowork/service/mode.json can be written
    app_dir,           \* ~/.cowork exists
    mode_file,         \* the content of mode.json, None while it is absent
    persisted,         \* history: the mode of the last save_mode that returned Ok
    service_log,       \* the platform operations carried out, each with its mode
    svc_result,        \* the last service command, its mode argument and result
    nsvc,              \* number of service commands run
    \* ---- the daemon endpoint ----
    env_user,          \* the environment variable USER (or USERNAME), if set
    port_pc,           \* position of daemon_tcp_port
    sanitized,         \* the sanitized username
    hashed,            \* number of bytes of it the loop has consumed
    hash,              \* the i32 hash, as its two 16-bit halves <<high, low>>
    tcp_port,          \* the port returned, and whether the u16 sum overflowed
    \* ---- the byte streams of the transports ----
    stream_out,        \* per transport: the pieces the writer task has written
    writing,           \* per transport: the line written whose newline is not written yet
    \* ---- the system clock and the keys of the calls ----
    now,               \* the system clock, in microseconds since the epoch
    keys,              \* the idempotency keys of the calls of send_command made so far
    \* ---- the OS keychain and the credential commands over it ----
    keychain,          \* the entries of the OS keychain, by service and account
    backend,           \* the credential backend the environment selects
    kc_last,           \* the last credential command that returned, and its result
    kc_n               \* number of credential commands run

sup == <<mode, process, tx, pending_requests, request_counter, stdin_healthy,
         daemon_auth_token>>
transports == <<ngen, queue, writerAlive, readerAlive, peerAlive, inbound, wire>>
callers == <<pc, key, attempt, last_error, id, auth, rx, result>>
lifecycle == <<spc, stopPc, daemon_err>>
events == <<event_handler, handling, handled>>
daemon == <<daemon_process, daemonAlive>>
manager == <<sup, transports, callers, lifecycle, issued, quiet, returned,
            events, daemon>>
envelope == <<call_params, call_key, retry, observed>>
vault == <<vault_file, plaintext_file, cpc, cop, cstore, cresult, nops,
          seeds_out, env_parent, child_env>>
files == <<fs_dirs, fs_files, touched, nfile, fresult>>
service_state == <<home_ok, state_writable, app_dir, mode_file, persisted,
                  service_log, svc_result, nsvc>>
endpoint == <<env_user, port_pc, sanitized, hashed, hash, tcp_port>>
stream == <<stream_out, writing>>
clock == <<now, keys>>
keystore == <<keychain, backend, kc_last, kc_n>>
host == <<envelope, vault, files, service_state, endpoint, stream, clock,
          keystore>>
outsideEnvelope == <<manager, vault, files, service_state, endpoint, stream,
                     clock, keystore>>
outsideVault == <<manager, envelope, files, service_state, endpoint, stream,
                  clock, keystore>>
outsideFiles == <<manager, envelope, vault, service_state, endpoint, stream,
                  clock, keystore>>
outsideService == <<manager, envelope, vault, files, endpoint, stream, clock,
                    keystore>>
outsideEndpoint == <<manager, envelope, vault, files, service_state, stream,
                     clock, keystore>>
\* The groups of the host other than stream.
outsideStream ==
    <<envelope, vault, files, service_state, endpoint, clock, keystore>>
outsideClock == <<manager, envelope, vault, files, service_state, endpoint,
                  stream, keystore>>
\* Everything but the keystore and the vault, whose file the credential
\* commands write.
outsideKeychain ==
    <<manager, envelope, files, service_state, endpoint, stream, clock>>
vars == <<manager, host>>

(***************************************************************************)
(* Values.                                                                 *)
(***************************************************************************)
\* IpcResponse: error is <<>> for None and <<text>> for Some(text).
Response(i, s, e) == [id |-> i, success |-> s, error |-> e]

\* SidecarEvent with its type and data (session_id is None).
Event(v) == [type |-> "status", data |-> v]

\* Output of the peer that is neither a response nor an event: log text, an
\* empty line, a JSON object of another shape, and bytes that are not UTF-8.
LogLine == [text |-> "hello world"]
EmptyLine == [text |-> ""]
OtherJson == [level |-> "info"]
BinaryLine == [bytes |-> "ff"]

\* BufRead::read_line returns Ok: the bytes of the line are valid UTF-8.
read_line(line) == "bytes" \notin DOMAIN line

\* line.trim().is_empty()
is_empty(line) == "text" \in DOMAIN line /\ line.text = ""

\* serde_json::from_str::<SidecarMessage>, an untagged enum: the first
\* variant whose required fields are all there, Response before Event.
from_str(line) ==
    IF {"id", "success"} \subseteq DOMAIN line THEN "Response"
    ELSE IF {"type", "data"} \subseteq DOMAIN line THEN "Event"
    ELSE "Err"

\* The response stop sends to every drained waiter.
StoppedResponse == Response(0, FALSE, <<ErrStopped>>)

\* Result<Value, String> returned by send_command.
Ok(v) == [ok |-> TRUE, val |-> v]
Err(e) == [ok |-> FALSE, val |-> e]
NoResult == [ok |-> TRUE, val |-> "-"]

\* stop has returned, and no call of start overlapped it or began since.
Stopped == quiet /\ stopPc = "idle"

\* Lines the worker behind transport g may write: a response, of any
\* outcome, to a request it has read (also a second response to it).
WorkerLines(g) ==
    LET read == {wire[g][n].id : n \in 1..Len(wire[g])}
    IN  {Response(i, TRUE, << >>) : i \in read}
        \cup {Response(i, FALSE, e) : i \in read,
                                       e \in {<<t>> : t \in WorkerErrors}}

\* Mutant of params_with_envelope: the key is rebuilt on every attempt.
params_with_envelope_rekey(idempotency_key, n) ==
    [_idempotencyKey |-> <<idempotency_key[1], idempotency_key[2] + n - 1>>,
     _retryAttempt |-> n]

\* The two envelope fields send_command adds to params.
params_with_envelope(idempotency_key, n) ==
    [_idempotencyKey |-> idempotency_key, _retryAttempt |-> n]

(***************************************************************************)
(* serde_json::Value, and the envelope of send_command on such values.     *)
(* A string is the sequence of its characters.                             *)
(***************************************************************************)
JNull == [kind |-> "null"]
JNumber(n) == [kind |-> "number", n |-> n]
JString(str) == [kind |-> "string", s |-> str]
JArray(elems) == [kind |-> "array", elems |-> elems]
JObject(map) == [kind |-> "object", map |-> map]

\* Map::insert: the value under an existing key is replaced.
map_insert(map, k, v) ==
    [x \in DOMAIN map \cup {k} |-> IF x = k THEN v ELSE map[x]]

\* The decimal digits of a natural number, as to_string gives them.
RECURSIVE to_string(_)
to_string(n) ==
    IF n < 10 THEN <<n>> ELSE to_string(n \div 10) \o <<n % 10>>

\* format!("{}-{}", command, micros): the idempotency key of a call.
format_key(command, micros) == command \o <<"-">> \o to_string(micros)

\* params_with_envelope of one attempt of send_command, on JSON values: an
\* object gets the two envelope keys inserted, any other value is wrapped.
with_envelope(p, k, n) ==
    IF p.kind = "object"
    THEN JObject(map_insert(map_insert(p.map, "_idempotencyKey", JString(k)),
                            "_retryAttempt", JNumber(n)))
    ELSE JObject([x \in {"_idempotencyKey", "_retryAttempt", "payload"} |->
                     CASE x = "_idempotencyKey" -> JString(k)
                       [] x = "_retryAttempt" -> JNumber(n)
                       [] OTHER -> p])

\* No call is under way in the model of the envelope.
EnvelopeIdle ==
    /\ call_params = JNull
    /\ call_key = << >>
    /\ retry = 0
    /\ observed = JNull

(***************************************************************************)
(* The credential vault (commands/credentials.rs), vault-only backend.     *)
(* Names and keys are strings, a string is the sequence of its characters; *)
(* Option: None is << >> and Some(v) is <<v>>.                             *)
(***************************************************************************)
\* The tasks that run credential commands, the nonces and seeds OsRng
\* gives, and the record of a task that has not run a command yet.
Tasks == {"t1", "t2"}
Nonces == {0, 1}
Seeds == {"seed1", "seed2"}
NoValue == ""
NoOp == [op |-> "none", service |-> << >>, account |-> << >>,
         value |-> NoValue, seen |-> {}]

None == << >>
Some(v) == <<v>>

CONNECTOR_SECRET_SERVICE == <<"k", ".", "s">>
CONNECTOR_SECRET_ACCOUNT == <<"m">>

\* format!("{}.{}", service, account)
fallback_key(service, account) == service \o <<".">> \o account

\* str::trim, on the only whitespace of the model, the blank.
RECURSIVE trim(_)
trim(str) ==
    IF str = << >> THEN str
    ELSE IF Head(str) = " " THEN trim(Tail(str))
    ELSE IF str[Len(str)] = " " THEN trim(SubSeq(str, 1, Len(str) - 1))
    ELSE str

\* The position of the first '.', 0 when there is none.
first_dot(str) ==
    IF \E i \in 1..Len(str) : str[i] = "."
    THEN CHOOSE i \in 1..Len(str) :
             str[i] = "." /\ \A j \in 1..(i - 1) : str[j] # "."
    ELSE 0

\* split_legacy_key: splitn(2, '.'), both parts trimmed, neither empty.
split_legacy_key(legacy) ==
    LET i == first_dot(legacy)
        service == trim(SubSeq(legacy, 1, i - 1))
        account == trim(SubSeq(legacy, i + 1, Len(legacy)))
    IN  IF i = 0 \/ service = << >> \/ account = << >>
        THEN None
        ELSE Some(<<service, account>>)

\* encrypt_secret under the nonce OsRng gives, and decrypt_secret: the
\* payload carries the nonce and the text sealed under the machine key.
encrypt_secret(plain_text, nonce) == [nonce |-> nonce, sealed |-> plain_text]
decrypt_secret(cipher_text) == cipher_text.sealed

\* HashMap::remove.
map_remove(map, k) == [x \in DOMAIN map \ {k} |-> map[x]]

\* fallback_get_secret on the store read from the vault file.
fallback_get_secret(store, service, account) ==
    IF fallback_key(service, account) \in DOMAIN store
    THEN Some(decrypt_secret(store[fallback_key(service, account)]))
    ELSE None

\* The vault key a legacy entry is stored under by migrate_plaintext_store.
legacy_target(legacy) ==
    fallback_key(split_legacy_key(legacy)[1][1], split_legacy_key(legacy)[1][2])

\* Mutant of migrate_plaintext_store: an entry the vault holds already is
\* not replaced.
migrate_plaintext_store_keep(store, legacy_store) ==
    LET valid == {k \in DOMAIN legacy_store : split_legacy_key(k) # None}
        targets == {legacy_target(k) : k \in valid}
    IN  {[t \in DOMAIN store \cup targets |->
             IF t \in targets \ DOMAIN store
             THEN encrypt_secret(legacy_store[last[t]], nonce)
             ELSE store[t]] :
         last \in {f \in [targets -> valid] :
                      \A t \in targets : legacy_target(f[t]) = t},
         nonce \in Nonces}

\* The stores migrate_plaintext_store can leave in the vault file: every
\* entry whose key splits is set, in the order the HashMap iterates.
migrate_plaintext_store(store, legacy_store) ==
    LET valid == {k \in DOMAIN legacy_store : split_legacy_key(k) # None}
        targets == {legacy_target(k) : k \in valid}
    IN  {[t \in DOMAIN store \cup targets |->
             IF t \in targets
             THEN encrypt_secret(legacy_store[last[t]], nonce)
             ELSE store[t]] :
         last \in {f \in [targets -> valid] :
                      \A t \in targets : legacy_target(f[t]) = t},
         nonce \in Nonces}

\* No credential operation is under way and nothing is on disk.
VaultIdle ==
    /\ vault_file = << >>
    /\ plaintext_file = None
    /\ cpc = [p \in Tasks |-> "idle"]
    /\ cop = [p \in Tasks |-> NoOp]
    /\ cstore = [p \in Tasks |-> << >>]
    /\ cresult = [p \in Tasks |-> Ok(None)]
    /\ nops = 0
    /\ seeds_out = {}
    /\ env_parent = None
    /\ child_env = None

\* The variable a child process gets from a Command on which
\* apply_connector_secret_seed_env has run with the result of
\* get_or_create_sidecar_connector_seed: the seed when there is one, and
\* otherwise what the child inherits from the supervisor.
command_env(seed) ==
    IF seed.ok THEN Some(seed.val[1]) ELSE env_parent

\* The variable of the last child after the command of task p has returned
\* seed: only apply_connector_secret_seed_env spawns a child.
spawned_env(p, seed) ==
    IF cop[p].op = "spawn" THEN command_env(seed) ELSE child_env

\* The commands that are calls of get_or_create_sidecar_connector_seed.
SeedOps == {"seed", "spawn"}

ErrVaultRead == <<"Failed to read encrypted credential vault">>

\* A credentials_* command or get_or_create_sidecar_connector_seed is
\* entered: migrate_plaintext_stores_if_needed runs first (the two paths it
\* visits are the same file), then the backend is asked.
CredBegin(p, op, service, account, value) ==
    /\ cpc[p] = "idle"
    /\ nops < MaxOps
    /\ nops' = nops + 1
    /\ IF plaintext_file # None
       THEN /\ vault_file' \in migrate_plaintext_store(vault_file,
                                                       plaintext_file[1])
            /\ plaintext_file' = None
       ELSE UNCHANGED <<vault_file, plaintext_file>>
    /\ cop' = [cop EXCEPT ![p] =
                  [op |-> op, service |-> service, account |-> account,
                   value |-> value, seen |-> seeds_out]]
    /\ cpc' = [cpc EXCEPT ![p] = IF op \in SeedOps THEN "seed_get" ELSE "read"]
    /\ cresult' = [cresult EXCEPT ![p] = Ok(None)]
    /\ UNCHANGED <<outsideVault, cstore, seeds_out, env_parent, child_env>>

\* get_or_create_sidecar_connector_seed asks the vault for the seed: it
\* returns the seed it finds; when there is none, and when the read or the
\* decryption fails, it draws a new seed and goes on to store it.
SeedGet(p, failed) ==
    /\ cpc[p] = "seed_get"
    /\ LET found == fallback_get_secret(vault_file, cop[p].service,
                                        cop[p].account)
       IN  IF ~failed /\ found # None
           THEN /\ cresult' = [cresult EXCEPT ![p] = Ok(found)]
                /\ seeds_out' = seeds_out \cup {found[1]}
                /\ child_env' = spawned_env(p, Ok(found))
                /\ cpc' = [cpc EXCEPT ![p] = "idle"]
                /\ UNCHANGED cop
           ELSE /\ \E seed \in Seeds :
                       cop' = [cop EXCEPT ![p].value = seed]
                /\ cpc' = [cpc EXCEPT ![p] = "read"]
                /\ UNCHANGED <<cresult, seeds_out, child_env>>
    /\ UNCHANGED <<outsideVault, vault_file, plaintext_file, cstore, nops,
                   env_parent>>

\* read_encrypted_store of fallback_get_secret, fallback_set_secret and
\* fallback_delete_secret: the command returns the error of a failed read,
\* and credentials_get returns what it finds.
VaultRead(p, failed) ==
    /\ cpc[p] = "read"
    /\ IF failed
       THEN /\ cresult' = [cresult EXCEPT ![p] = Err(ErrVaultRead)]
            /\ child_env' = spawned_env(p, Err(ErrVaultRead))
            /\ cpc' = [cpc EXCEPT ![p] = "idle"]
            /\ UNCHANGED cstore
       ELSE /\ cstore' = [cstore EXCEPT ![p] = vault_file]
            /\ UNCHANGED child_env
            /\ IF cop[p].op = "get"
               THEN /\ cresult' = [cresult EXCEPT ![p] =
                           Ok(fallback_get_secret(vault_file, cop[p].service,
                                                  cop[p].account))]
                    /\ cpc' = [cpc EXCEPT ![p] = "idle"]
               ELSE /\ cpc' = [cpc EXCEPT ![p] = "write"]
                    /\ UNCHANGED cresult
    /\ UNCHANGED <<outsideVault, vault_file, plaintext_file, cop, nops,
                   seeds_out, env_parent>>

\* write_encrypted_store of the store read before, with the entry inserted
\* (set, new seed) or removed (delete, only when the entry was there).
VaultWrite(p, nonce) ==
    /\ cpc[p] = "write"
    /\ LET k == fallback_key(cop[p].service, cop[p].account)
       IN  IF cop[p].op = "delete"
           THEN vault_file' = IF k \in DOMAIN cstore[p]
                              THEN map_remove(cstore[p], k)
                              ELSE vault_file
           ELSE vault_file' = map_insert(cstore[p], k,
                                         encrypt_secret(cop[p].value, nonce))
    /\ cresult' = [cresult EXCEPT ![p] =
                      IF cop[p].op \in SeedOps THEN Ok(Some(cop[p].value))
                      ELSE Ok(None)]
    /\ seeds_out' = IF cop[p].op \in SeedOps
                    THEN seeds_out \cup {cop[p].value}
                    ELSE seeds_out
    /\ child_env' = spawned_env(p, Ok(Some(cop[p].value)))
    /\ cpc' = [cpc EXCEPT ![p] = "idle"]
    /\ UNCHANGED <<outsideVault, plaintext_file, cop, cstore, nops,
                   env_parent>>

(***************************************************************************)
(* The file commands (commands/files.rs), on a Linux build.  A path is the *)
(* sequence of its components; all paths are absolute.                     *)
(***************************************************************************)
\* get_blocked_paths: every blocked path is one component under the root.
BlockedPaths == {"etc", "usr", "var", "bin", "sbin", "boot", "root", "sys",
                 "proc", "dev", "lib", "lib64"}

\* The names of the model one of which is the beginning of the other.
ProperPrefixes == {<<"etc", "etcetera">>, <<"lib", "lib64">>}

\* str::starts_with on two names.
name_starts_with(name, prefix) ==
    name = prefix \/ <<prefix, name>> \in ProperPrefixes

\* dirs::home_dir()
HomeDir == <<"home", "u">>

\* The file system before the commands: /etc/f, /home/u/f, the empty
\* directory /etcetera, and the symbolic link /home/u/l to /etc/f.
InitialDirs == {<< >>, <<"etc">>, <<"etcetera">>, <<"home">>, HomeDir}
InitialFiles == {<<"etc", "f">>, <<"home", "u", "f">>}
Symlinks == [x \in {<<"home", "u", "l">>} |-> <<"etc", "f">>]

\* Path::parent
parent(path) == SubSeq(path, 1, Len(path) - 1)

\* The location a path resolves to in the file system, links followed and
\* ".." applied; None when a component does not exist.
RECURSIVE resolve(_, _, _, _)
resolve(cur, rest, dirs, regular) ==
    IF rest = << >> THEN Some(cur)
    ELSE IF cur \notin dirs THEN None
    ELSE IF Head(rest) = ".."
         THEN resolve(IF cur = << >> THEN cur ELSE parent(cur), Tail(rest),
                      dirs, regular)
    ELSE LET next == Append(cur, Head(rest))
             real == IF next \in DOMAIN Symlinks THEN Symlinks[next] ELSE next
         IN  IF real \in dirs \cup regular
             THEN resolve(real, Tail(rest), dirs, regular)
             ELSE None

\* Path::canonicalize, as an Option.
canonicalize(path) == resolve(<< >>, path, fs_dirs, fs_files)

\* The string of the path starts with a blocked path.
starts_with_blocked(path) ==
    /\ path # << >>
    /\ \E blocked \in BlockedPaths : name_starts_with(path[1], blocked)

\* The string of the path starts with the string of the home directory.
starts_with_home(path) ==
    /\ Len(path) >= Len(HomeDir)
    /\ path[1] = HomeDir[1]
    /\ name_starts_with(path[2], HomeDir[2])

\* path.contains("..")
contains_dotdot(path) == \E i \in 1..Len(path) : path[i] = ".."

ErrDenied == "Access denied"
ErrIo == "Failed"

\* validate_path: the blocked paths are looked for in the canonical path, or
\* in the path as given when it cannot be canonicalized.
validate_path(path) ==
    LET canonical == IF canonicalize(path) # None
                     THEN canonicalize(path)[1]
                     ELSE path
    IN  IF starts_with_blocked(canonical) THEN Err(ErrDenied)
        ELSE IF contains_dotdot(path) /\ ~starts_with_home(canonical)
             THEN Err(ErrDenied)
        ELSE Ok(canonical)

\* validate_path_for_write: the blocked paths are looked for in the canonical
\* parent, when the parent exists.
validate_path_for_write(path) ==
    IF /\ path # << >>
       /\ canonicalize(parent(path)) # None
       /\ starts_with_blocked(canonicalize(parent(path))[1])
    THEN Err(ErrDenied)
    ELSE IF contains_dotdot(path) THEN Err(ErrDenied)
    ELSE Ok(path)

\* No file command has run.
FilesIdle ==
    /\ fs_dirs = InitialDirs
    /\ fs_files = InitialFiles
    /\ touched = {}
    /\ nfile = 0
    /\ fresult = Ok(<< >>)

\* A file command that returns without a change of the file system.
FileReturns(done, value) ==
    /\ nfile < MaxFileOps
    /\ nfile' = nfile + 1
    /\ touched' = touched \cup done
    /\ fresult' = value
    /\ UNCHANGED <<outsideFiles, fs_dirs, fs_files>>

\* read_file: fs::read_to_string on the validated path.
read_file(path) ==
    LET validated == validate_path(path)
        real == resolve(<< >>, validated.val, fs_dirs, fs_files)
    IN  IF ~validated.ok THEN FileReturns({}, validated)
        ELSE IF real # None /\ real[1] \in fs_files
             THEN FileReturns({<<"read", real[1]>>}, Ok(real[1]))
        ELSE FileReturns({}, Err(ErrIo))

\* list_directory: fs::read_dir on the validated path.
list_directory(path) ==
    LET validated == validate_path(path)
        real == resolve(<< >>, validated.val, fs_dirs, fs_files)
    IN  IF ~validated.ok THEN FileReturns({}, validated)
        ELSE IF real # None /\ real[1] \in fs_dirs
             THEN FileReturns({<<"list", real[1]>>}, Ok(real[1]))
        ELSE FileReturns({}, Err(ErrIo))

\* The directories fs::create_dir_all makes for a path without "..".
missing_dirs(dir) ==
    {SubSeq(dir, 1, n) : n \in 0..Len(dir)} \ fs_dirs

\* write_file: create_dir_all on the parent of the validated path, then
\* fs::write, which follows a link and fails on a directory.
write_file(path) ==
    LET validated == validate_path_for_write(path)
        made == missing_dirs(parent(path))
        target == IF path \in DOMAIN Symlinks THEN Symlinks[path] ELSE path
    IN  IF ~validated.ok \/ path = << >> THEN FileReturns({}, Err(ErrDenied))
        ELSE IF made \cap fs_files # {} THEN FileReturns({}, Err(ErrIo))
        ELSE /\ nfile < MaxFileOps
             /\ nfile' = nfile + 1
             /\ fs_dirs' = fs_dirs \cup made
             /\ IF target \in fs_dirs
                THEN /\ touched' = touched \cup {<<"mkdir", d>> : d \in made}
                     /\ fresult' = Err(ErrIo)
                     /\ UNCHANGED fs_files
                ELSE /\ touched' = touched \cup {<<"mkdir", d>> : d \in made}
                                       \cup {<<"write", target>>}
                     /\ fs_files' = fs_files \cup {target}
                     /\ fresult' = Ok(target)
             /\ UNCHANGED outsideFiles

\* IpcRequest as serialized onto the writer channel.
IpcRequest(i, params, token) ==
    [id |-> i, params |-> params, authToken |-> token]

\* Mutant of next_request_id: the counter is not advanced.
next_request_id_stuck(counter) == counter

\* The counter value after `*counter += 1`.
next_request_id(counter) == counter + 1

\* Mutant of pending_insert: the entry is not inserted.
pending_insert_skip(pending, i, sender) == pending

\* HashMap::insert.
pending_insert(pending, i, sender) ==
    [j \in (DOMAIN pending) \cup {i} |-> IF j = i THEN sender ELSE pending[j]]

\* Mutant of pending_remove: the entry stays in the table.
pending_remove_keep(pending, i) == pending

\* HashMap::remove.
pending_remove(pending, i) ==
    [j \in (DOMAIN pending) \ {i} |-> pending[j]]

\* The oneshot receiver created by caller c for request i still exists.
ReceiverAlive(c, i) ==
    /\ id[c] = i
    /\ pc[c] \in {"enqueue", "blocked", "await"}

\* The sender of caller c's oneshot channel is still in the table.
SenderAlive(c) ==
    /\ id[c] \in DOMAIN pending_requests
    /\ pending_requests[id[c]] = c

(***************************************************************************)
(* Initial state: SidecarManager::new().                                   *)
(***************************************************************************)
InitManager ==
    /\ mode = "Disconnected"
    /\ process = 0
    /\ tx = 0
    /\ pending_requests = << >>
    /\ request_counter = 0
    /\ stdin_healthy = TRUE
    /\ daemon_auth_token = NoToken
    /\ daemon_process = 0
    /\ daemonAlive = FALSE
    /\ ngen = 0
    /\ queue = [g \in Gens |-> << >>]
    /\ writerAlive = [g \in Gens |-> FALSE]
    /\ readerAlive = [g \in Gens |-> FALSE]
    /\ peerAlive = [g \in Gens |-> FALSE]
    /\ inbound = [g \in Gens |-> << >>]
    /\ wire = [g \in Gens |-> << >>]
    /\ pc = [c \in Callers |-> "idle"]
    /\ key = [c \in Callers |-> <<"ping", 0>>]
    /\ attempt = [c \in Callers |-> 0]
    /\ last_error = [c \in Callers |-> ""]
    /\ id = [c \in Callers |-> 0]
    /\ auth = [c \in Callers |-> NoToken]
    /\ rx = [c \in Callers |-> << >>]
    /\ result = [c \in Callers |-> NoResult]
    /\ spc = [s \in Starters |-> "idle"]
    /\ stopPc = "idle"
    /\ daemon_err = NoError
    /\ issued = << >>
    /\ quiet = FALSE
    /\ returned = {}
    /\ event_handler = 0
    /\ handling = [g \in Gens |-> FALSE]
    /\ handled = << >>

(***************************************************************************)
(* The service commands (commands/service.rs).  A mode string is a         *)
(* sequence of characters; mode.json is None while absent, and otherwise   *)
(* its content: bytes that are no UTF-8 text, text that is no JSON of a    *)
(* ServiceModeState, or a ServiceModeState with its mode string.           *)
(***************************************************************************)
User == "User"
System == "System"

\* str::to_lowercase on a sequence of characters.
lowercase(str) == [i \in 1..Len(str) |-> LowerChar(str[i])]

ErrInvalidMode == "Invalid service mode. Expected 'user' or 'system'."
ErrHomeDir == "Failed to resolve home directory"
ErrWriteMode == "Failed to write service mode state"
ErrExecSpec == "Daemon binary not found"
ErrPlatform == "Service operation failed"

\* ServiceMode::parse
parse(value) ==
    LET text == lowercase(trim(value))
    IN  IF text = <<"u","s","e","r">> THEN Ok(User)
        ELSE IF text \in {<<"s","y","s","t","e","m">>,
                          <<"s","y","s","t","e","m","-","w","i","d","e">>,
                          <<"s","y","s","t","e","m","_","w","i","d","e">>}
             THEN Ok(System)
        ELSE Err(ErrInvalidMode)

\* The mode strings of the model, and ServiceMode::parse of each.
ModeStrings ==
    {<<"u","s","e","r">>, <<" ","S","y","s","t","e","m"," ">>,
     <<"s","y","s","t","e","m","-","w","i","d","e">>, <<"r","o","o","t">>,
     << >>}
ModeOfString ==
    [str \in ModeStrings \cup {<<"s","y","s","t","e","m">>} |-> parse(str)]

\* ServiceMode::as_str
as_str(m) ==
    IF m = User THEN <<"u","s","e","r">> ELSE <<"s","y","s","t","e","m">>

NotUtf8Text == [kind |-> "bytes", mode |-> << >>]
NotJsonText == [kind |-> "text", mode |-> << >>]
ModeState(str) == [kind |-> "state", mode |-> str]

\* load_saved_mode: user whenever the path, the file, its text, its JSON or
\* its mode string cannot be had.
load_saved_mode ==
    IF ~home_ok THEN User
    ELSE IF mode_file = None THEN User
    ELSE IF mode_file[1].kind = "bytes" THEN User
    ELSE IF mode_file[1].kind = "text" THEN User
    ELSE IF ModeOfString[mode_file[1].mode].ok
         THEN ModeOfString[mode_file[1].mode].val
    ELSE User

\* Mutant of resolve_mode: an omitted mode is user, whatever was saved.
resolve_mode_default(given) ==
    IF given # None THEN ModeOfString[given[1]] ELSE Ok(User)

\* resolve_mode
resolve_mode(given) ==
    IF given # None THEN ModeOfString[given[1]] ELSE Ok(load_saved_mode)

\* resolve_user_app_data_dir: creates ~/.cowork on the way.
app_dir_after(called) == app_dir \/ (called /\ home_ok)

\* save_mode: the result, and the file it leaves.
save_mode(m) ==
    IF ~home_ok THEN [res |-> Err(ErrHomeDir), file |-> mode_file]
    ELSE IF ~state_writable THEN [res |-> Err(ErrWriteMode), file |-> mode_file]
    ELSE [res |-> Ok(m), file |-> Some(ModeState(as_str(m)))]

\* No service command has run; nothing is persisted.
ServiceIdle ==
    /\ home_ok = TRUE
    /\ state_writable = TRUE
    /\ app_dir = FALSE
    /\ mode_file = None
    /\ persisted = None
    /\ service_log = << >>
    /\ svc_result = [op |-> "none", given |-> None, res |-> Ok(User)]
    /\ nsvc = 0

\* A service command returns: what it leaves on disk, what it has carried out.
ServiceReturns(op, given, res, dir, file, saved, log) ==
    /\ nsvc < MaxServiceOps
    /\ nsvc' = nsvc + 1
    /\ svc_result' = [op |-> op, given |-> given, res |-> res]
    /\ app_dir' = dir
    /\ mode_file' = file
    /\ persisted' = saved
    /\ service_log' = log
    /\ UNCHANGED <<outsideService, home_ok, state_writable>>

\* service_get_mode
service_get_mode ==
    /\ svc_result' = [op |-> "get_mode", given |-> None,
                      res |-> Ok(load_saved_mode)]
    /\ ServiceReturns("get_mode", None, Ok(load_saved_mode),
                      app_dir_after(TRUE), mode_file, persisted, service_log)

\* service_set_mode: parse, then save_mode.
service_set_mode(str) ==
    LET parsed == ModeOfString[str]
        saved == save_mode(parsed.val)
    IN  IF ~parsed.ok
        THEN ServiceReturns("set_mode", Some(str), parsed, app_dir, mode_file,
                            persisted, service_log)
        ELSE ServiceReturns("set_mode", Some(str), saved.res,
                            app_dir_after(TRUE), saved.file,
                            IF saved.res.ok THEN Some(parsed.val) ELSE persisted,
                            service_log)

\* The commands that take an optional mode: resolve_mode, then
\* resolve_daemon_exec_spec, then the platform operation, then (install only)
\* `let _ = save_mode`, then service_status_impl.  The outcome says how far
\* the platform lets the command go: no daemon binary, the operation fails,
\* the status query after it fails, or all of it works.
Outcomes == {"no binary", "failed", "unreported", "ok"}

ServiceOperation(op, given, outcome) ==
    LET resolved == resolve_mode(given)
        done == Append(service_log, <<op, resolved.val>>)
        saved == save_mode(resolved.val)
    IN  IF ~resolved.ok
        THEN ServiceReturns(op, given, resolved, app_dir, mode_file, persisted,
                            service_log)
        ELSE IF ~home_ok
        THEN ServiceReturns(op, given, Err(ErrHomeDir), app_dir, mode_file,
                            persisted, service_log)
        ELSE IF outcome = "no binary"
        THEN ServiceReturns(op, given, Err(ErrExecSpec), app_dir_after(TRUE),
                            mode_file, persisted, service_log)
        ELSE IF outcome = "failed"
        THEN ServiceReturns(op, given, Err(ErrPlatform), app_dir_after(TRUE),
                            mode_file, persisted, done)
        ELSE IF op = "install"
        THEN ServiceReturns(op, given,
                            IF outcome = "ok" THEN resolved
                            ELSE Err(ErrPlatform),
                            app_dir_after(TRUE), saved.file,
                            IF saved.res.ok THEN Some(resolved.val)
                            ELSE persisted,
                            done)
        ELSE ServiceReturns(op, given,
                            IF outcome = "ok" THEN resolved
                            ELSE Err(ErrPlatform),
                            app_dir_after(TRUE), mode_file, persisted, done)

\* service_status: the status query is the operation itself.
service_status(given, outcome) ==
    /\ outcome # "unreported"
    /\ ServiceOperation("status", given, outcome)

service_install(given, outcome) ==
    /\ outcome \in Outcomes
    /\ ServiceOperation("install", given, outcome)

service_uninstall(given, outcome) ==
    /\ outcome \in Outcomes
    /\ ServiceOperation("uninstall", given, outcome)

service_start(given, outcome) ==
    /\ outcome \in Outcomes
    /\ ServiceOperation("start", given, outcome)

service_stop(given, outcome) ==
    /\ outcome \in Outcomes
    /\ ServiceOperation("stop", given, outcome)

service_restart(given, outcome) ==
    /\ outcome \in Outcomes
    /\ ServiceOperation("restart", given, outcome)

(***************************************************************************)
(* The daemon endpoint (sidecar.rs and commands/service.rs).               *)
(***************************************************************************)
\* daemon_tcp_port has not been called.
EndpointIdle ==
    /\ env_user = None
    /\ port_pc = "idle"
    /\ sanitized = << >>
    /\ hashed = 0
    /\ hash = <<0, 0>>
    /\ tcp_port = [value |-> 0, overflow |-> FALSE]

\* The bytes of the characters a sanitized username is made of.
Digits == <<"0","1","2","3","4","5","6","7","8","9">>
is_ascii_alphanumeric(ch) ==
    \/ \E i \in 1..26 : ch = LowerChars[i] \/ ch = UpperChars[i]
    \/ \E i \in 1..10 : ch = Digits[i]

as_byte(ch) ==
    IF ch = "-" THEN 45
    ELSE IF ch = "_" THEN 95
    ELSE IF \E i \in 1..10 : ch = Digits[i]
         THEN 47 + (CHOOSE i \in 1..10 : ch = Digits[i])
    ELSE 96 + (CHOOSE i \in 1..26 : ch = LowerChars[i])

\* sanitize_username: trimmed and lowered; every character that is no ASCII
\* letter or digit, '_' or '-' becomes '-'; "user" when nothing is left.
sanitize_username(raw) ==
    LET lowered == lowercase(trim(raw))
        kept == [i \in 1..Len(lowered) |->
                    IF \/ is_ascii_alphanumeric(lowered[i])
                       \/ lowered[i] = "_"
                       \/ lowered[i] = "-"
                    THEN lowered[i] ELSE "-"]
    IN  IF kept = << >> THEN <<"u","s","e","r">> ELSE kept

\* An i32 is kept as its two 16-bit halves <<high, low>> (two's complement), so
\* that no intermediate value leaves the 32 bits.
Half == 65536
wrapping_shl5(h) ==
    <<(h[1] * 32 + ((h[2] * 32) \div Half)) % Half, (h[2] * 32) % Half>>
wrapping_sub(a, b) ==
    <<(a[1] - b[1] - (IF a[2] < b[2] THEN 1 ELSE 0) + 2 * Half) % Half,
      (a[2] - b[2] + Half) % Half>>
wrapping_add(a, b) ==
    <<(a[1] + b[1] + ((a[2] + b[2]) \div Half)) % Half, (a[2] + b[2]) % Half>>
is_negative(h) == h[1] >= Half \div 2

\* One turn of the loop: hash.wrapping_shl(5).wrapping_sub(hash)
\* .wrapping_add(byte as i32).
hash_byte(h, byte) ==
    wrapping_add(wrapping_sub(wrapping_shl5(h), h), <<0, byte>>)

\* x % 1000 for a magnitude x of up to 2^31, given as halves: 65536 % 1000 = 536.
mod_1000(x) == (x[1] * 536 + x[2]) % 1000

\* Mutant of offset_of: the absolute value taken in 32 bits, which leaves
\* i32::MIN negative, and with it the remainder.
offset_of_i32(h) ==
    IF h = <<Half \div 2, 0>> THEN 0 - 648
    ELSE IF is_negative(h) THEN mod_1000(wrapping_sub(<<0, 0>>, h))
    ELSE mod_1000(h)

\* (hash as i64).abs() % 1000: the widening keeps the sign, and the absolute
\* value of i32::MIN, 2^31, is an i64.
offset_of(h) ==
    IF is_negative(h) THEN mod_1000(wrapping_sub(<<0, 0>>, h))
    ELSE mod_1000(h)

\* 39100 + offset as u16: the cast keeps the low 16 bits, the sum is a u16.
port_of(offset) ==
    LET sum == 39100 + (offset % Half)
    IN  [value |-> sum % Half, overflow |-> sum >= Half]

\* daemon_tcp_port, up to the loop: the username of the environment, "user"
\* when neither USER nor USERNAME is set, sanitized.
DaemonTcpPortBegin ==
    /\ port_pc = "idle"
    /\ port_pc' = "hash"
    /\ sanitized' = sanitize_username(IF env_user = None
                                      THEN <<"u","s","e","r">>
                                      ELSE env_user[1])
    /\ hashed' = 0
    /\ hash' = <<0, 0>>
    /\ UNCHANGED <<outsideEndpoint, env_user, tcp_port>>

\* One byte of user.as_bytes().
DaemonTcpPortHash ==
    /\ port_pc = "hash"
    /\ hashed < Len(sanitized)
    /\ hash' = hash_byte(hash, as_byte(sanitized[hashed + 1]))
    /\ hashed' = hashed + 1
    /\ UNCHANGED <<outsideEndpoint, env_user, port_pc, sanitized, tcp_port>>

\* The loop is over: the offset and the port.
DaemonTcpPortReturn ==
    /\ port_pc = "hash"
    /\ hashed = Len(sanitized)
    /\ port_pc' = "done"
    /\ tcp_port' = port_of(offset_of(hash))
    /\ UNCHANGED <<outsideEndpoint, env_user, sanitized, hashed, hash>>

(***************************************************************************)
(* The writer task, call by call of its Write: write_all(msg),             *)
(* write_all(b"\n"), flush.  What a transport's stream has received is a   *)
(* sequence of pieces: the bytes of a line, a part of them (a write_all    *)
(* that failed half way), or a newline.                                    *)
(***************************************************************************)
Bytes(msg) == [bytes |-> msg]
PartOf(msg) == [part |-> msg]
Newline == [newline |-> TRUE]

\* No writer task is inside a turn of its loop; nothing has been written.
StreamIdle ==
    /\ stream_out = [g \in Gens |-> << >>]
    /\ writing = [g \in Gens |-> None]

\* Mutant of WriterWriteAll: a line is taken from the channel and written
\* while the line before it still waits for its newline, as two consumers of
\* one channel would do.
WriterWriteAll_two_consumers(g) ==
    /\ writerAlive[g]
    /\ queue[g] # << >>
    /\ writing' = [writing EXCEPT ![g] = Some(Head(queue[g]))]
    /\ queue' = [queue EXCEPT ![g] = Tail(@)]
    /\ stream_out' = [stream_out EXCEPT ![g] = Append(@, Bytes(Head(queue[g])))]
    /\ UNCHANGED <<sup, ngen, writerAlive, readerAlive, peerAlive, inbound,
                   wire, callers, lifecycle, issued, daemon, quiet, returned,
                   events, outsideStream>>

\* rx.recv() returns a line and writer.write_all(msg.as_bytes()) returns Ok.
WriterWriteAll(g) ==
    /\ writerAlive[g]
    /\ writing[g] = None
    /\ queue[g] # << >>
    /\ writing' = [writing EXCEPT ![g] = Some(Head(queue[g]))]
    /\ queue' = [queue EXCEPT ![g] = Tail(@)]
    /\ stream_out' = [stream_out EXCEPT ![g] = Append(@, Bytes(Head(queue[g])))]
    /\ UNCHANGED <<sup, ngen, writerAlive, readerAlive, peerAlive, inbound,
                   wire, callers, lifecycle, issued, daemon, quiet, returned,
                   events, outsideStream>>

\* writer.write_all(b"\n") and writer.flush() return Ok: the line is on the
\* wire, and the task is back at rx.recv().
WriterNewline(g) ==
    /\ writerAlive[g]
    /\ writing[g] # None
    /\ stream_out' = [stream_out EXCEPT ![g] = Append(@, Newline)]
    /\ wire' = [wire EXCEPT ![g] = Append(@, writing[g][1])]
    /\ writing' = [writing EXCEPT ![g] = None]
    /\ UNCHANGED <<sup, ngen, queue, writerAlive, readerAlive, peerAlive,
                   inbound, callers, lifecycle, issued, daemon, quiet,
                   returned, events, outsideStream>>

\* The task breaks out of its loop: the flag is cleared, the receiver is
\* dropped and the lines still in the channel with it.
WriterBreaks(g, written) ==
    /\ stdin_healthy' = FALSE
    /\ writerAlive' = [writerAlive EXCEPT ![g] = FALSE]
    /\ queue' = [queue EXCEPT ![g] = << >>]
    /\ writing' = [writing EXCEPT ![g] = None]
    /\ stream_out' = [stream_out EXCEPT ![g] = @ \o written]
    /\ UNCHANGED <<mode, process, tx, pending_requests, request_counter,
                   daemon_auth_token, ngen, readerAlive, peerAlive, inbound,
                   wire, callers, lifecycle, issued, daemon, quiet, returned,
                   events, outsideStream>>

\* writer.write_all(msg.as_bytes()) returns Err (the peer is gone), after
\* none or some of the bytes.
WriterWriteAllFails(g, some) ==
    /\ writerAlive[g]
    /\ writing[g] = None
    /\ queue[g] # << >>
    /\ ~peerAlive[g]
    /\ WriterBreaks(g, IF some THEN <<PartOf(Head(queue[g]))>> ELSE << >>)

\* writer.write_all(b"\n") or writer.flush() returns Err.
WriterNewlineFails(g) ==
    /\ writerAlive[g]
    /\ writing[g] # None
    /\ ~peerAlive[g]
    /\ WriterBreaks(g, << >>)

(***************************************************************************)
(* The idempotency keys of successive calls of send_command.               *)
(***************************************************************************)
MaxCalls == 3
MaxClock == 3

\* The readings of the system clock, in microseconds since the epoch; a
\* negative reading is a clock set before the epoch.
ClockValues == (0 - 1)..MaxClock

ClockIdle == now = 0 /\ keys = << >>

\* SystemTime::now().duration_since(UNIX_EPOCH).map(as_micros).unwrap_or(0)
micros_of(t) == IF t < 0 THEN 0 ELSE t

\* The system clock moves: forward as time passes, or to any value when it
\* is set.
ClockMoves(t) ==
    /\ t # now
    /\ now' = t
    /\ UNCHANGED <<outsideClock, keys>>

\* send_command is entered and builds the idempotency key of the call.
SendCommandKey(command) ==
    /\ Len(keys) < MaxCalls
    /\ keys' = Append(keys, format_key(command, micros_of(now)))
    /\ UNCHANGED <<outsideClock, now>>

(***************************************************************************)
(* The credential commands over the OS keychain and the vault file, and    *)
(* the provider API key commands built on them.                            *)
(***************************************************************************)
MaxKeyOps == 3

API_KEY_SERVICE == <<"c", "o", "w", "o", "r", "k">>
LEGACY_API_KEY_ACCOUNT == <<"a", "p", "i", "_", "k", "e", "y">>
Google == <<"g", "o", "o", "g", "l", "e">>
Gemini == <<"g", "e", "m", "i", "n", "i">>
PROVIDER_IDS ==
    {<<"g", "o", "o", "g", "l", "e">>,
     <<"o", "p", "e", "n", "a", "i">>,
     <<"a", "n", "t", "h", "r", "o", "p", "i", "c">>,
     <<"o", "p", "e", "n", "r", "o", "u", "t", "e", "r">>,
     <<"m", "o", "o", "n", "s", "h", "o", "t">>,
     <<"g", "l", "m">>,
     <<"d", "e", "e", "p", "s", "e", "e", "k">>,
     <<"l", "m", "s", "t", "u", "d", "i", "o">>}

ErrKeychain == <<"Keychain call failed">>
ErrVaultWrite == <<"Failed to write encrypted credential vault">>
ErrUnsupported == <<"Unsupported provider">>
ErrEmptyKey == <<"API key cannot be empty">>

\* Which of the calls of one credentials_* command fail: the keychain call
\* and the read or write of the vault file.
Failures == [kc : BOOLEAN, fb : BOOLEAN]
NoFailure == [kc |-> FALSE, fb |-> FALSE]

\* The last command that returned, when none has.
NoCommand == [op |-> "none", service |-> << >>, account |-> << >>,
              value |-> << >>, fail |-> NoFailure, result |-> Ok(None)]

KeychainIdle ==
    /\ keychain = << >>
    /\ backend = "VaultOnly"
    /\ kc_last = NoCommand
    /\ kc_n = 0

\* The keychain and the vault file as one value, with the Result a command
\* returns.
Stored(r, entries, store) == [result |-> r, kc |-> entries, vault |-> store]

\* keychain_get: NoEntry is Ok(None), any other error is an error.
keychain_get(entries, service, account, failed) ==
    IF failed THEN Err(ErrKeychain)
    ELSE IF <<service, account>> \in DOMAIN entries
    THEN Ok(Some(entries[<<service, account>>]))
    ELSE Ok(None)

\* fallback_get_secret with its read of the vault file, which may fail.
fallback_get(store, service, account, failed) ==
    IF failed THEN Err(ErrVaultRead)
    ELSE Ok(fallback_get_secret(store, service, account))

\* fallback_set_secret: the vault file after it, and its Result.
fallback_set_secret(store, service, account, value, nonce, failed) ==
    IF failed THEN [result |-> Err(ErrVaultWrite), vault |-> store]
    ELSE [result |-> Ok(None),
          vault |-> map_insert(store, fallback_key(service, account),
                               encrypt_secret(value, nonce))]

\* fallback_delete_secret: the vault file after it, and its Result.
fallback_delete_secret(store, service, account, failed) ==
    IF failed THEN [result |-> Err(ErrVaultRead), vault |-> store]
    ELSE [result |-> Ok(None),
          vault |-> map_remove(store, fallback_key(service, account))]

\* credentials_get: the keychain first; the vault when the keychain has no
\* entry or fails.
credentials_get(entries, store, service, account, fail) ==
    IF backend = "VaultOnly"
    THEN fallback_get(store, service, account, fail.fb)
    ELSE LET found == keychain_get(entries, service, account, fail.kc)
         IN  IF found.ok /\ found.val # None
             THEN found
             ELSE fallback_get(store, service, account, fail.fb)

\* credentials_set: the keychain, and then the vault entry is deleted (the
\* Result of that is dropped); the vault when the keychain write fails.
credentials_set(entries, store, service, account, value, nonce, fail) ==
    LET set == fallback_set_secret(store, service, account, value, nonce,
                                   fail.fb)
        deleted == fallback_delete_secret(store, service, account, fail.fb)
    IN  IF backend = "VaultOnly" \/ fail.kc
        THEN Stored(set.result, entries, set.vault)
        ELSE Stored(Ok(None),
                    map_insert(entries, <<service, account>>, value),
                    deleted.vault)

\* credentials_delete: both stores are asked; an error only when both fail.
credentials_delete(entries, store, service, account, fail) ==
    LET deleted == fallback_delete_secret(store, service, account, fail.fb)
    IN  IF backend = "VaultOnly"
        THEN Stored(deleted.result, entries, deleted.vault)
        ELSE Stored(IF fail.kc /\ fail.fb THEN Err(ErrKeychain) ELSE Ok(None),
                    IF fail.kc THEN entries
                    ELSE map_remove(entries, <<service, account>>),
                    deleted.vault)

\* A command returns: what it leaves in the keychain and the vault file, and
\* the record of it.
KeyCommand(op, service, account, value, fail, after) ==
    /\ kc_n < MaxKeyOps
    /\ kc_n' = kc_n + 1
    /\ keychain' = after.kc
    /\ vault_file' = after.vault
    /\ kc_last' = [op |-> op, service |-> service, account |-> account,
                   value |-> value, fail |-> fail, result |-> after.result]
    /\ UNCHANGED <<outsideKeychain, backend, plaintext_file, cpc, cop, cstore,
                   cresult, nops, seeds_out, env_parent, child_env>>

CredentialsGet(service, account, fail) ==
    /\ fail \in Failures
    /\ KeyCommand("get", service, account, << >>, fail,
                  Stored(credentials_get(keychain, vault_file, service,
                                         account, fail),
                         keychain, vault_file))

CredentialsSet(service, account, value, nonce, fail) ==
    /\ fail \in Failures
    /\ KeyCommand("set", service, account, value, fail,
                  credentials_set(keychain, vault_file, service, account,
                                  value, nonce, fail))

CredentialsDelete(service, account, fail) ==
    /\ fail \in Failures
    /\ KeyCommand("delete", service, account, << >>, fail,
                  credentials_delete(keychain, vault_file, service, account,
                                     fail))

\* normalize_provider_id: trimmed, lowercased, gemini mapped to google; an
\* id outside the list is an error.
normalize_provider_id(provider_id) ==
    LET normalized == lowercase(trim(provider_id))
        mapped == IF normalized = Gemini THEN Google ELSE normalized
    IN  IF mapped \in PROVIDER_IDS THEN Ok(mapped) ELSE Err(ErrUnsupported)

\* format!("provider_api_key_{}", provider)
provider_api_key_account(provider) == <<"p", "r", "o", "v", "i", "d", "e", "r", "_", "a", "p", "i", "_", "k", "e", "y", "_">> \o provider

\* migrate_legacy_google_api_key_if_needed: when there is no key for google
\* and there is one under the legacy account, it is stored for google.
migrate_legacy_google_api_key_if_needed(entries, store, nonce) ==
    LET google_account == provider_api_key_account(Google)
        current == credentials_get(entries, store, API_KEY_SERVICE,
                                   google_account, NoFailure)
        legacy == credentials_get(entries, store, API_KEY_SERVICE,
                                  LEGACY_API_KEY_ACCOUNT, NoFailure)
    IN  IF current.val # None \/ legacy.val = None
        THEN Stored(Ok(None), entries, store)
        ELSE credentials_set(entries, store, API_KEY_SERVICE, google_account,
                             legacy.val[1], nonce, NoFailure)

\* get_provider_api_key
GetProviderApiKey(provider_id, nonce) ==
    /\ kc_n < MaxKeyOps
    /\ LET provider == normalize_provider_id(provider_id)
           migrated == IF provider.ok /\ provider.val = Google
                       THEN migrate_legacy_google_api_key_if_needed(
                                keychain, vault_file, nonce)
                       ELSE Stored(Ok(None), keychain, vault_file)
       IN  KeyCommand("get_provider", API_KEY_SERVICE, provider_id, << >>, NoFailure,
                      IF ~provider.ok
                      THEN Stored(provider, keychain, vault_file)
                      ELSE Stored(credentials_get(
                                      migrated.kc, migrated.vault, API_KEY_SERVICE,
                                      provider_api_key_account(provider.val),
                                      NoFailure),
                                  migrated.kc, migrated.vault))

\* set_provider_api_key
SetProviderApiKey(provider_id, api_key, nonce) ==
    /\ kc_n < MaxKeyOps
    /\ LET provider == normalize_provider_id(provider_id)
       IN  KeyCommand("set_provider", API_KEY_SERVICE, provider_id, api_key, NoFailure,
                      IF ~provider.ok
                      THEN Stored(provider, keychain, vault_file)
                      ELSE IF trim(api_key) = << >>
                      THEN Stored(Err(ErrEmptyKey), keychain, vault_file)
                      ELSE credentials_set(
                               keychain, vault_file, API_KEY_SERVICE,
                               provider_api_key_account(provider.val),
                               trim(api_key), nonce, NoFailure))

\* delete_provider_api_key
DeleteProviderApiKey(provider_id) ==
    /\ kc_n < MaxKeyOps
    /\ LET provider == normalize_provider_id(provider_id)
       IN  KeyCommand("delete_provider", API_KEY_SERVICE, provider_id, << >>, NoFailure,
                      IF ~provider.ok
                      THEN Stored(provider, keychain, vault_file)
                      ELSE credentials_delete(
                               keychain, vault_file, API_KEY_SERVICE,
                               provider_api_key_account(provider.val),
                               NoFailure))

\* No call of the operations outside the SidecarManager is under way.
InitHost ==
    /\ EnvelopeIdle
    /\ VaultIdle
    /\ FilesIdle
    /\ ServiceIdle
    /\ EndpointIdle
    /\ StreamIdle
    /\ ClockIdle
    /\ KeychainIdle

Init == InitManager /\ InitHost

(***************************************************************************)
(* send_command: the retry loop.                                           *)
(***************************************************************************)
\* send_command is called: the idempotency key is built from the command
\* name and the clock, the loop starts with attempt 1.
SendCommand(c, command, micros) ==
    /\ pc[c] \in {"idle", "done"}
    /\ pc' = [pc EXCEPT ![c] = "attempt"]
    /\ key' = [key EXCEPT ![c] = <<command, micros>>]
    /\ attempt' = [attempt EXCEPT ![c] = 1]
    /\ last_error' = [last_error EXCEPT ![c] = ""]
    /\ result' = [result EXCEPT ![c] = NoResult]
    /\ UNCHANGED <<id, auth, rx, sup, transports, lifecycle, issued, daemon, quiet, returned, events,
            host>>

\* The value send_command_once returns for a response.
once_result(response) ==
    IF response.success THEN Ok("result")
    ELSE Err(IF response.error = << >> THEN ErrUnknown ELSE response.error[1])

\* The error strings of the model, and is_retryable_transport_error of each.
Messages ==
    {ErrNotHealthy, ErrNotRunning, ErrSendFailed, ErrTimeout, ErrChannelClosed,
     ErrStopped, ErrUnknown} \cup WorkerErrors
Retryable == [e \in Messages |-> is_retryable_transport_error(e)]

\* send_command loops after send_command_once returned r: r is a retryable
\* error and this was not the last attempt.
retries(c, r) ==
    /\ ~r.ok
    /\ ~(~Retryable[r.val] \/ attempt[c] >= DEFAULT_RETRY_ATTEMPTS)

\* send_command_once returns out[c] to every caller c of W: send_command
\* returns it, or sleeps and loops.  The locals of send_command_once (id,
\* auth_token, response_rx) are gone; inbox holds responses sent to the
\* oneshot receivers of callers that are not awaiting them yet.
Completes(W, out, inbox) ==
    LET looping == {c \in W : retries(c, out[c])}
        returning == W \ looping
    IN  /\ pc' = [c \in Callers |->
                     IF c \in looping THEN "attempt"
                     ELSE IF c \in returning THEN "done" ELSE pc[c]]
        /\ attempt' = [c \in Callers |->
                          IF c \in looping THEN attempt[c] + 1 ELSE attempt[c]]
        /\ last_error' = [c \in Callers |->
                             IF c \in looping THEN out[c].val
                             ELSE IF c \in returning THEN "" ELSE last_error[c]]
        /\ result' = [c \in Callers |->
                         IF c \in returning THEN out[c] ELSE result[c]]
        /\ id' = [c \in Callers |-> IF c \in W THEN 0 ELSE id[c]]
        /\ auth' = [c \in Callers |-> IF c \in W THEN NoToken ELSE auth[c]]
        /\ rx' = [c \in Callers |-> IF c \in W THEN << >> ELSE inbox[c]]
        /\ UNCHANGED key

\* send_command_once of caller c returns Err(err).
AttemptFailed(c, err) == Completes({c}, [x \in {c} |-> Err(err)], rx)

\* A response is sent on the oneshot of every caller in W (whose receiver
\* exists): a caller that awaits it goes on with it at once, the others
\* find it when they reach the await.
Resolve(W, response) ==
    Completes({c \in W : pc[c] = "await"},
              [c \in {x \in W : pc[x] = "await"} |-> once_result(response)],
              [c \in Callers |->
                  IF c \in W /\ pc[c] # "await" THEN <<response>> ELSE rx[c]])

\* send_command_once up to the serialization of the request: the health
\* check, the id, the pending entry, the mode and the token.
SendOnceBegin(c) ==
    /\ pc[c] = "attempt"
    /\ IF ~stdin_healthy
       THEN /\ AttemptFailed(c, ErrNotHealthy)
            /\ UNCHANGED <<sup, issued>>
       ELSE /\ request_counter < MaxRequests
            /\ LET i == next_request_id(request_counter)
               IN  /\ request_counter' = i
                   /\ pending_requests' = pending_insert(pending_requests, i, c)
                   /\ id' = [id EXCEPT ![c] = i]
                   /\ issued' = Append(issued, i)
            /\ auth' = [auth EXCEPT ![c] =
                           IF mode = "Daemon" THEN daemon_auth_token ELSE NoToken]
            /\ rx' = [rx EXCEPT ![c] = << >>]
            /\ pc' = [pc EXCEPT ![c] = "enqueue"]
            /\ UNCHANGED <<key, attempt, last_error, result, mode, process, tx,
                           stdin_healthy, daemon_auth_token>>
    /\ UNCHANGED <<transports, lifecycle, quiet, returned, events, daemon, host>>

\* Some caller holds the lock on tx while its send waits for capacity.
TxLocked == \E c \in Callers : pc[c] = "blocked"

\* The SidecarManager has been dropped: no method can be called any more.
Dropped == stopPc = "dropped"

\* The line of the running attempt of caller c.
RequestLine(c) ==
    IpcRequest(id[c], params_with_envelope(key[c], attempt[c]), auth[c])

\* The request of caller c is in the channel: the caller awaits its oneshot,
\* which may hold a response already.
Enqueued(c) ==
    IF rx[c] # << >>
    THEN Completes({c}, [x \in {c} |-> once_result(rx[c][1])], rx)
    ELSE /\ pc' = [pc EXCEPT ![c] = "await"]
         /\ UNCHANGED <<key, attempt, last_error, id, auth, rx, result>>

\* send_command_once takes the lock on tx and sends the line.
Enqueue(c) ==
    /\ pc[c] = "enqueue"
    /\ ~TxLocked
    /\ IF tx = 0
       THEN /\ AttemptFailed(c, ErrNotRunning)
            /\ UNCHANGED queue
       ELSE IF ~writerAlive[tx]
       THEN /\ AttemptFailed(c, ErrSendFailed)
            /\ UNCHANGED queue
       ELSE IF Len(queue[tx]) >= ChannelCapacity
       THEN /\ pc' = [pc EXCEPT ![c] = "blocked"]
            /\ UNCHANGED <<queue, key, attempt, last_error, id, auth, rx, result>>
       ELSE /\ queue' = [queue EXCEPT ![tx] = Append(@, RequestLine(c))]
            /\ Enqueued(c)
    /\ UNCHANGED <<sup, ngen, writerAlive, readerAlive, peerAlive, inbound, wire,
                   lifecycle, issued, daemon, quiet, returned, events, host>>

\* A send that waited for capacity completes or fails; it held the lock on
\* tx all the time, so tx is still the sender it started with.
BlockedSend(c) ==
    /\ pc[c] = "blocked"
    /\ IF ~writerAlive[tx]
       THEN /\ AttemptFailed(c, ErrSendFailed)
            /\ UNCHANGED queue
       ELSE /\ Len(queue[tx]) < ChannelCapacity
            /\ queue' = [queue EXCEPT ![tx] = Append(@, RequestLine(c))]
            /\ Enqueued(c)
    /\ UNCHANGED <<sup, ngen, writerAlive, readerAlive, peerAlive, inbound, wire,
                   lifecycle, issued, daemon, quiet, returned, events, host>>

\* AwaitEnds with a deadline that leaves the entry in the pending table.
AwaitEnds_keep_entry(c) ==
    /\ pc[c] = "await"
    /\ IF SenderAlive(c)
       THEN AttemptFailed(c, ErrTimeout)
       ELSE AttemptFailed(c, ErrChannelClosed)
    /\ UNCHANGED <<sup, transports, lifecycle, issued, daemon, quiet, returned, events,
            host>>

\* The await ends without a response: the deadline passes and the entry is
\* removed, or the sender was dropped.
AwaitEnds(c) ==
    /\ pc[c] = "await"
    /\ IF SenderAlive(c)
       THEN /\ pending_requests' = pending_remove(pending_requests, id[c])
            /\ AttemptFailed(c, ErrTimeout)
       ELSE /\ AttemptFailed(c, ErrChannelClosed)
            /\ UNCHANGED pending_requests
    /\ UNCHANGED <<mode, process, tx, request_counter, stdin_healthy,
                   daemon_auth_token, transports, lifecycle, issued, daemon, quiet,
                   returned, events, host>>

(***************************************************************************)
(* attach_io, the writer task and the reader thread.                       *)
(***************************************************************************)
\* attach_io binds transport g: a fresh channel, the mode, the token, and
\* the two tasks.
attach_io(g, m, token) ==
    /\ tx' = g
    /\ mode' = m
    /\ daemon_auth_token' = token
    /\ ngen' = g
    /\ writerAlive' = [writerAlive EXCEPT ![g] = TRUE]
    /\ readerAlive' = [readerAlive EXCEPT ![g] = TRUE]
    /\ peerAlive' = [peerAlive EXCEPT ![g] = TRUE]

\* The writer task takes a line from the channel and writes it.
WriterWrite(g) ==
    /\ writerAlive[g]
    /\ queue[g] # << >>
    /\ wire' = [wire EXCEPT ![g] = Append(@, Head(queue[g]))]
    /\ queue' = [queue EXCEPT ![g] = Tail(@)]
    /\ UNCHANGED <<sup, ngen, writerAlive, readerAlive, peerAlive, inbound,
                   callers, lifecycle, issued, daemon, quiet, returned, events,
                   host>>

\* A write or flush fails (the peer is gone): the flag is cleared and the
\* task ends, dropping the receiver and the lines still in the channel.
WriterFail(g) ==
    /\ writerAlive[g]
    /\ queue[g] # << >>
    /\ ~peerAlive[g]
    /\ stdin_healthy' = FALSE
    /\ writerAlive' = [writerAlive EXCEPT ![g] = FALSE]
    /\ queue' = [queue EXCEPT ![g] = << >>]
    /\ UNCHANGED <<mode, process, tx, pending_requests, request_counter,
                   daemon_auth_token, ngen, readerAlive, peerAlive, inbound, wire,
                   callers, lifecycle, issued, daemon, quiet, returned, events,
                   host>>

\* recv() returns None: the channel is empty and its sender was dropped.
WriterExit(g) ==
    /\ writerAlive[g]
    /\ queue[g] = << >>
    /\ tx # g
    /\ writerAlive' = [writerAlive EXCEPT ![g] = FALSE]
    /\ UNCHANGED <<sup, ngen, queue, readerAlive, peerAlive, inbound, wire,
                   callers, lifecycle, issued, daemon, quiet, returned, events,
                   host>>

\* The worker (or daemon) behind transport g writes a line; the reader
\* thread takes the lines one by one.
WorkerEmit(g, line) ==
    /\ peerAlive[g]
    /\ inbound[g] = << >>
    /\ inbound' = [inbound EXCEPT ![g] = Append(@, line)]
    /\ UNCHANGED <<sup, ngen, queue, writerAlive, readerAlive, peerAlive, wire,
                   callers, lifecycle, issued, daemon, quiet, returned, events,
                   host>>

\* The worker process exits, or the daemon connection is closed.
PeerExit(g) ==
    /\ peerAlive[g]
    /\ peerAlive' = [peerAlive EXCEPT ![g] = FALSE]
    /\ UNCHANGED <<sup, ngen, queue, writerAlive, readerAlive, inbound, wire,
                   callers, lifecycle, issued, daemon, quiet, returned, events,
                   host>>

\* The reader thread reads a response: the entry is removed and the response
\* sent on its oneshot; no entry, no effect.
ReaderDispatch(g) ==
    /\ readerAlive[g]
    /\ ~handling[g]
    /\ inbound[g] # << >>
    /\ read_line(Head(inbound[g]))
    /\ from_str(Head(inbound[g])) = "Response"
    /\ inbound' = [inbound EXCEPT ![g] = Tail(@)]
    /\ LET response == Head(inbound[g])
       IN  IF response.id \in DOMAIN pending_requests
           THEN LET sender == pending_requests[response.id]
                IN  /\ pending_requests' =
                           pending_remove(pending_requests, response.id)
                    /\ Resolve({c \in {sender} : ReceiverAlive(c, response.id)},
                               response)
           ELSE UNCHANGED <<pending_requests, callers>>
    /\ UNCHANGED <<mode, process, tx, request_counter, stdin_healthy,
                   daemon_auth_token, ngen, queue, writerAlive, readerAlive,
                   peerAlive, wire, lifecycle, issued, daemon, quiet, returned, events,
                   host>>

\* read_line returns 0 bytes or an error: the reader thread ends.
ReaderExit(g) ==
    /\ readerAlive[g]
    /\ ~handling[g]
    /\ ~peerAlive[g]
    /\ inbound[g] = << >>
    /\ readerAlive' = [readerAlive EXCEPT ![g] = FALSE]
    /\ UNCHANGED <<sup, ngen, queue, writerAlive, peerAlive, inbound, wire,
                   callers, lifecycle, issued, daemon, quiet, returned, events,
                   host>>

(***************************************************************************)
(* Events: set_event_handler and the other arms of the reader thread.      *)
(***************************************************************************)
Handlers == {1}

\* The event the peer may write, as long as the handler has been invoked
\* for fewer than MaxEvents: its data is the number of the next invocation.
EventLines ==
    IF Len(handled) < MaxEvents THEN {Event(Len(handled) + 1)} ELSE {}

\* The peer's output that is no message.
LogLines == {LogLine, EmptyLine, OtherJson, BinaryLine}

\* A reader thread holds the lock on event_handler: it is in the handler.
HandlerLocked == \E g \in Gens : handling[g]

\* set_event_handler stores the handler under the lock on event_handler.
SetEventHandler(h) ==
    /\ ~Dropped
    /\ ~HandlerLocked
    /\ event_handler' = h
    /\ UNCHANGED <<sup, transports, callers, lifecycle, issued, daemon, quiet,
                   returned, handling, handled, host>>

\* ReaderEvent without the lock on event_handler.
ReaderEvent_no_lock(g) ==
    /\ readerAlive[g]
    /\ ~handling[g]
    /\ inbound[g] # << >>
    /\ read_line(Head(inbound[g]))
    /\ ~is_empty(Head(inbound[g]))
    /\ from_str(Head(inbound[g])) = "Event"
    /\ inbound' = [inbound EXCEPT ![g] = Tail(@)]
    /\ IF event_handler # 0
       THEN /\ handling' = [handling EXCEPT ![g] = TRUE]
            /\ handled' = Append(handled, <<g, Head(inbound[g]).data>>)
       ELSE UNCHANGED <<handling, handled>>
    /\ UNCHANGED <<sup, ngen, queue, writerAlive, readerAlive, peerAlive, wire,
                   callers, lifecycle, issued, daemon, quiet, returned, event_handler,
                   host>>

\* The reader thread reads an event: it takes the lock on event_handler and
\* calls the handler, if there is one, with the event.
ReaderEvent(g) ==
    /\ readerAlive[g]
    /\ ~handling[g]
    /\ inbound[g] # << >>
    /\ read_line(Head(inbound[g]))
    /\ ~is_empty(Head(inbound[g]))
    /\ from_str(Head(inbound[g])) = "Event"
    /\ ~HandlerLocked
    /\ inbound' = [inbound EXCEPT ![g] = Tail(@)]
    /\ IF event_handler # 0
       THEN /\ handling' = [handling EXCEPT ![g] = TRUE]
            /\ handled' = Append(handled, <<g, Head(inbound[g]).data>>)
       ELSE UNCHANGED <<handling, handled>>
    /\ UNCHANGED <<sup, ngen, queue, writerAlive, readerAlive, peerAlive, wire,
                   callers, lifecycle, issued, daemon, quiet, returned, event_handler,
                   host>>

\* The handler returns and the lock on event_handler is released.
ReaderEventEnd(g) ==
    /\ handling[g]
    /\ handling' = [handling EXCEPT ![g] = FALSE]
    /\ UNCHANGED <<sup, transports, callers, lifecycle, issued, daemon, quiet,
                   returned, event_handler, handled, host>>

\* The reader thread reads an empty line or a line that does not parse: it
\* goes on with the next line.
ReaderSkip(g) ==
    /\ readerAlive[g]
    /\ ~handling[g]
    /\ inbound[g] # << >>
    /\ read_line(Head(inbound[g]))
    /\ is_empty(Head(inbound[g])) \/ from_str(Head(inbound[g])) = "Err"
    /\ inbound' = [inbound EXCEPT ![g] = Tail(@)]
    /\ UNCHANGED <<sup, ngen, queue, writerAlive, readerAlive, peerAlive, wire,
                   callers, lifecycle, issued, daemon, quiet, returned, events,
                   host>>

\* read_line returns an error for a line that is not UTF-8: the reader
\* thread ends.
ReaderReadError(g) ==
    /\ readerAlive[g]
    /\ ~handling[g]
    /\ inbound[g] # << >>
    /\ ~read_line(Head(inbound[g]))
    /\ inbound' = [inbound EXCEPT ![g] = Tail(@)]
    /\ readerAlive' = [readerAlive EXCEPT ![g] = FALSE]
    /\ UNCHANGED <<sup, ngen, queue, writerAlive, peerAlive, wire,
                   callers, lifecycle, issued, daemon, quiet, returned, events,
                   host>>

(***************************************************************************)
(* is_running, start, stop.                                                *)
(***************************************************************************)
\* start_embedded_sidecar holds the lock on process from its first line on.
ProcessLocked == \E s \in Starters : spc[s] = "attached"

\* try_wait() on the held child returns Ok(Some(status)).
ChildExited == process # 0 /\ ~peerAlive[process]

\* The value is_running returns.
is_running ==
    CASE mode = "EmbeddedSidecar" -> process # 0 /\ peerAlive[process]
      [] mode = "Daemon" -> tx # 0 /\ stdin_healthy
      [] OTHER -> FALSE

\* is_running that leaves the child handle and the mode as they are.
is_running_effect_keep == UNCHANGED <<process, mode>>

\* The fields is_running writes when it finds the child exited.
is_running_effect ==
    IF mode = "EmbeddedSidecar" /\ ChildExited
    THEN process' = 0 /\ mode' = "Disconnected"
    ELSE UNCHANGED <<process, mode>>

\* is_running called from outside start.
IsRunning ==
    /\ ~Dropped
    /\ mode = "EmbeddedSidecar" => ~ProcessLocked
    /\ mode = "Daemon" => ~TxLocked
    /\ is_running_effect
    /\ UNCHANGED <<tx, pending_requests, request_counter, stdin_healthy,
                   daemon_auth_token, transports, callers, lifecycle, issued, daemon,
                   quiet, returned, events, host>>

\* Mutant of StartBegin: start does not take the start lock.
StartBegin_no_lock(s) ==
    /\ spc[s] = "idle"
    /\ mode = "Daemon" => ~TxLocked
    /\ is_running_effect
    /\ IF is_running
       THEN /\ returned' = returned \cup {s}
            /\ UNCHANGED <<stdin_healthy, spc>>
       ELSE /\ stdin_healthy' = TRUE
            /\ spc' = [spc EXCEPT ![s] = "connect"]
            /\ UNCHANGED returned
    /\ quiet' = FALSE
    /\ UNCHANGED <<tx, pending_requests, request_counter, daemon_auth_token,
                   transports, callers, stopPc, daemon_err, issued, daemon, events,
                   host>>

\* start: the start lock is taken, is_running is false, the health flag is
\* reset.  When is_running is true start returns Ok at once.
StartBegin(s) ==
    /\ \A t \in Starters : spc[t] = "idle"
    /\ mode = "Daemon" => ~TxLocked
    /\ is_running_effect
    /\ IF is_running
       THEN /\ returned' = returned \cup {s}
            /\ UNCHANGED <<stdin_healthy, spc>>
       ELSE /\ stdin_healthy' = TRUE
            /\ spc' = [spc EXCEPT ![s] = "connect"]
            /\ UNCHANGED returned
    /\ quiet' = FALSE
    /\ UNCHANGED <<tx, pending_requests, request_counter, daemon_auth_token,
                   transports, callers, stopPc, daemon_err, issued, daemon, events,
                   host>>

\* start_daemon_transport finds no daemon listening: it spawns the daemon and
\* stores its handle, replacing the one held, and waits for the endpoint.
StartDaemonSpawn(s) ==
    /\ spc[s] = "connect"
    /\ spc' = [spc EXCEPT ![s] = "spawned"]
    /\ daemon_process' = 1
    /\ daemonAlive' = TRUE
    /\ quiet' = FALSE
    /\ UNCHANGED <<sup, transports, callers, stopPc, daemon_err, issued,
                   returned, events, host>>

\* start_daemon_transport connects, to a daemon that was listening or to the
\* one it has spawned, and reads the token: attach in Daemon mode.
StartDaemonAttach(s, limit) ==
    /\ spc[s] \in {"connect", "spawned"}
    /\ ngen < limit
    /\ ~TxLocked
    /\ attach_io(ngen + 1, "Daemon", DaemonToken)
    /\ spc' = [spc EXCEPT ![s] = "idle"]
    /\ returned' = returned \cup {s}
    /\ quiet' = FALSE
    /\ UNCHANGED <<process, pending_requests, request_counter, stdin_healthy,
                   queue, inbound, wire, callers, stopPc, daemon_err, issued,
                   daemon, events, host>>

\* resolve_sidecar_dir returns Ok: not after the packaged daemon binary was
\* found missing, since it wants both binaries.
resolve_sidecar_dir(err) == err # ErrNoBinary

\* start_daemon_transport fails with err (NoError: the daemon transport is
\* disabled; ErrUnreachable: the daemon it has spawned does not answer; the
\* other errors come before a daemon is spawned): fall back to the embedded sidecar, or return the error when
\* the fallback is disabled.
StartDaemonFailed(s, err, fallback) ==
    /\ spc[s] \in {"connect", "spawned"}
    /\ err = ErrUnreachable <=> spc[s] = "spawned"
    /\ IF err = NoError \/ fallback
       THEN /\ spc' = [spc EXCEPT ![s] = "embedded"]
            /\ daemon_err' = err
       ELSE /\ spc' = [spc EXCEPT ![s] = "idle"]
            /\ UNCHANGED daemon_err
    /\ quiet' = FALSE
    /\ UNCHANGED <<sup, transports, callers, stopPc, issued, daemon, returned,
                   events, host>>

\* start_embedded_sidecar: a child is held already (return Ok), or
\* resolve_sidecar_dir or the spawn fails (return Err), or the child is
\* spawned and attached.
StartEmbeddedAttach(s, spawned, limit) ==
    /\ spc[s] = "embedded"
    /\ quiet' = FALSE
    /\ daemon_err' = NoError
    /\ IF process # 0 \/ ~resolve_sidecar_dir(daemon_err) \/ ~spawned
       THEN /\ spc' = [spc EXCEPT ![s] = "idle"]
            /\ returned' = IF process # 0 THEN returned \cup {s} ELSE returned
            /\ UNCHANGED <<sup, transports>>
       ELSE /\ ngen < limit
            /\ ~TxLocked
            /\ attach_io(ngen + 1, "EmbeddedSidecar", NoToken)
            /\ spc' = [spc EXCEPT ![s] = "attached"]
            /\ UNCHANGED <<process, pending_requests, request_counter,
                           stdin_healthy, queue, inbound, wire, returned>>
    /\ UNCHANGED <<callers, stopPc, issued, daemon, events, host>>

\* start_embedded_sidecar stores the child and the mode, and returns Ok.
StartEmbeddedFinish(s) ==
    /\ spc[s] = "attached"
    /\ process' = ngen
    /\ mode' = "EmbeddedSidecar"
    /\ spc' = [spc EXCEPT ![s] = "idle"]
    /\ returned' = returned \cup {s}
    /\ quiet' = FALSE
    /\ UNCHANGED <<tx, pending_requests, request_counter, stdin_healthy,
                   daemon_auth_token, transports, callers, stopPc, daemon_err, issued, daemon,
                   events, host>>

\* stop reads the mode and, in embedded mode, takes and kills the child.
\* (kill on an own child that was not waited for does not fail.)
StopKill ==
    /\ stopPc = "idle"
    /\ IF mode = "EmbeddedSidecar"
       THEN /\ ~ProcessLocked
            /\ process' = 0
            /\ peerAlive' = IF process # 0
                            THEN [peerAlive EXCEPT ![process] = FALSE]
                            ELSE peerAlive
       ELSE UNCHANGED <<process, peerAlive>>
    /\ stopPc' = "clear"
    /\ quiet' = \A s \in Starters : spc[s] = "idle"
    /\ UNCHANGED <<mode, tx, pending_requests, request_counter, stdin_healthy,
                   daemon_auth_token, ngen, queue, writerAlive, readerAlive,
                   inbound, wire, callers, spc, daemon_err, issued, daemon, returned,
                   events, host>>

\* Mutant of StopClear: the writer channel stays bound.
StopClear_keep_tx ==
    /\ stopPc = "clear"
    /\ ~TxLocked
    /\ stdin_healthy' = TRUE
    /\ mode' = "Disconnected"
    /\ daemon_auth_token' = NoToken
    /\ stopPc' = "drain"
    /\ UNCHANGED <<tx, process, pending_requests, request_counter, transports,
                   callers, spc, daemon_err, issued, daemon, quiet, returned, events,
                   host>>

\* stop clears the writer channel, the health flag, the mode and the token.
StopClear ==
    /\ stopPc = "clear"
    /\ ~TxLocked
    /\ tx' = 0
    /\ stdin_healthy' = TRUE
    /\ mode' = "Disconnected"
    /\ daemon_auth_token' = NoToken
    /\ stopPc' = "drain"
    /\ UNCHANGED <<process, pending_requests, request_counter, transports,
                   callers, spc, daemon_err, issued, daemon, quiet, returned, events,
                   host>>

\* stop drains the pending table: every sender gets the synthetic response.
StopDrain ==
    /\ stopPc = "drain"
    /\ pending_requests' = << >>
    /\ Resolve({c \in Callers : SenderAlive(c) /\ ReceiverAlive(c, id[c])},
               StoppedResponse)
    /\ stopPc' = "idle"
    /\ UNCHANGED <<mode, process, tx, request_counter, stdin_healthy,
                   daemon_auth_token, transports, spc, daemon_err, issued, daemon,
                   quiet, returned, events, host>>

\* Drop for SidecarManager, which runs when no method borrows the manager:
\* the embedded child is taken and killed if the try_lock succeeds; the other
\* fields, the handle of the daemon among them, are dropped as they are, and
\* dropping a std::process::Child does not kill the process.
Drop ==
    /\ stopPc = "idle"
    /\ \A s \in Starters : spc[s] = "idle"
    /\ \A c \in Callers : pc[c] \in {"idle", "done"}
    /\ IF ~ProcessLocked /\ process # 0
       THEN /\ process' = 0
            /\ peerAlive' = [peerAlive EXCEPT ![process] = FALSE]
       ELSE /\ process' = 0
            /\ UNCHANGED peerAlive
    /\ daemon_process' = 0
    /\ tx' = 0
    /\ stopPc' = "dropped"
    /\ spc' = [s \in Starters |-> "dropped"]
    /\ pc' = [c \in Callers |-> "dropped"]
    /\ UNCHANGED <<mode, pending_requests, request_counter, stdin_healthy,
                   daemon_auth_token, daemonAlive, ngen, queue, writerAlive,
                   readerAlive, inbound, wire, key, attempt, last_error, id,
                   auth, rx, result, daemon_err, issued, quiet, returned,
                   events, host>>

\* The daemon the supervisor has spawned exits by itself; nothing in the
\* supervisor waits for it, and the handle stays where it is.
DaemonExit ==
    /\ daemonAlive
    /\ daemonAlive' = FALSE
    /\ UNCHANGED <<sup, daemon_process, transports, callers, lifecycle, issued,
                   quiet, returned, events, host>>

(***************************************************************************)
(* The specifications.                                                     *)
(***************************************************************************)
\* The steps of the callers C of send_command.
CallerStep(C) ==
    \/ \E c \in C, command \in Commands, micros \in ClockReadings :
           SendCommand(c, command, micros)
    \/ \E c \in C : SendOnceBegin(c)
    \/ \E c \in C : Enqueue(c)
    \/ \E c \in C : BlockedSend(c)
    \/ \E c \in C : AwaitEnds(c)

\* The steps of the writer tasks.
WriterStep ==
    \/ \E g \in Gens : WriterWrite(g)
    \/ \E g \in Gens : WriterExit(g)

\* The failures of a transport.
FailureStep ==
    \/ \E g \in Gens : PeerExit(g)
    \/ \E g \in Gens : WriterFail(g)
    \/ \E g \in Gens : ReaderExit(g)

\* The steps of the workers and of the reader threads.
ReaderStep ==
    \/ \E g \in Gens : \E line \in WorkerLines(g) : WorkerEmit(g, line)
    \/ \E g \in Gens : ReaderDispatch(g)

\* set_event_handler, the peer's events and the reader threads' arm for
\* them.
EventStep ==
    \/ \E h \in Handlers : SetEventHandler(h)
    \/ \E g \in Gens : \E line \in EventLines : WorkerEmit(g, line)
    \/ \E g \in Gens : ReaderEvent(g)
    \/ \E g \in Gens : ReaderEventEnd(g)

\* The peer's output that is no message, and what the reader threads do
\* with it.
LogStep ==
    \/ \E g \in Gens : \E line \in LogLines : WorkerEmit(g, line)
    \/ \E g \in Gens : ReaderSkip(g)
    \/ \E g \in Gens : ReaderReadError(g)

\* The steps of the callers S of start, which attach at most limit
\* transports.
StartStep(S, limit) ==
    \/ \E s \in S : StartBegin(s)
    \/ \E s \in S : StartDaemonAttach(s, limit)
    \/ \E s \in S, err \in DaemonErrors \cup {NoError}, fallback \in BOOLEAN :
           StartDaemonFailed(s, err, fallback)
    \/ \E s \in S, spawned \in BOOLEAN : StartEmbeddedAttach(s, spawned, limit)
    \/ \E s \in S : StartEmbeddedFinish(s)

\* start_daemon_transport spawning the daemon, for the callers S of start.
DaemonSpawnStep(S) == \E s \in S : StartDaemonSpawn(s)

StopStep ==
    \/ StopKill
    \/ StopClear
    \/ StopDrain

\* Everything.
Next ==
    \/ CallerStep(Callers)
    \/ WriterStep
    \/ FailureStep
    \/ ReaderStep
    \/ EventStep
    \/ LogStep
    \/ StartStep(Starters, MaxTransports)
    \/ DaemonSpawnStep(Starters)
    \/ StopStep
    \/ IsRunning
    \/ Drop
    \/ DaemonExit

Spec == Init /\ [][Next]_vars

\* One caller, the writer task, start and stop; no worker responses and no
\* failures of the peer.
NextSolo ==
    \/ CallerStep({"c1"})
    \/ \E g \in Gens : WriterWrite(g)
    \/ StartStep({"s1"}, MaxStarts)
    \/ StopStep

SpecSolo == Init /\ [][NextSolo]_vars

\* Two callers, the writer task, start and stop.
NextLifecycle ==
    \/ CallerStep(Callers)
    \/ \E g \in Gens : WriterWrite(g)
    \/ StartStep({"s1"}, MaxStarts)
    \/ StopStep

SpecLifecycle == Init /\ [][NextLifecycle]_vars

\* Two callers, the writer task, the worker and the reader thread, start;
\* no stop and no failures of the peer.
NextWorker ==
    \/ CallerStep(Callers)
    \/ \E g \in Gens : WriterWrite(g)
    \/ ReaderStep
    \/ StartStep({"s1"}, MaxStarts)

SpecWorker == Init /\ [][NextWorker]_vars

\* One caller, the writer task, the failures of the transport, start.
NextFailure ==
    \/ CallerStep({"c1"})
    \/ \E g \in Gens : WriterWrite(g)
    \/ FailureStep
    \/ StartStep({"s1"}, MaxStarts)

SpecFailure == Init /\ [][NextFailure]_vars

\* One caller, restarts without stop: the writer task, the failures of the
\* transports, start and is_running.
NextRestart ==
    \/ CallerStep({"c1"})
    \/ \E g \in Gens : WriterWrite(g)
    \/ FailureStep
    \/ StartStep({"s1"}, MaxTransports)
    \/ IsRunning

SpecRestart == Init /\ [][NextRestart]_vars

\* Two callers of start and one caller of send_command, the writer task;
\* no stop, no failures.
NextStartRace ==
    \/ CallerStep({"c1"})
    \/ \E g \in Gens : WriterWrite(g)
    \/ StartStep(Starters, MaxTransports)

SpecStartRace == Init /\ [][NextStartRace]_vars

\* Two callers, the writer task and start: the worker never responds, and
\* the writer task is under no obligation to get a line written (the worker
\* may not read its input, and write_all then blocks).
NextSilentWorker ==
    \/ CallerStep(Callers)
    \/ \E g \in Gens : WriterWrite(g)
    \/ StartStep({"s1"}, MaxStarts)

\* The runtime goes on polling a future that can make progress, and the
\* timer of the deadline fires: every step of send_command that is enabled
\* is taken at some time.
FairCallers ==
    \A c \in Callers :
        /\ WF_vars(SendOnceBegin(c))
        /\ WF_vars(Enqueue(c))
        /\ WF_vars(BlockedSend(c))
        /\ WF_vars(AwaitEnds(c))

SpecSilentWorker == Init /\ [][NextSilentWorker]_vars /\ FairCallers

\* One caller, the writer task, the worker with all of its output and the
\* reader thread, start.
NextEvents ==
    \/ CallerStep({"c1"})
    \/ \E g \in Gens : WriterWrite(g)
    \/ ReaderStep
    \/ EventStep
    \/ LogStep
    \/ StartStep({"s1"}, MaxStarts)

SpecEvents == Init /\ [][NextEvents]_vars

\* One caller, the writer task and start with every outcome of the daemon
\* transport; the spawn of the embedded sidecar itself does not fail.
NextFallback ==
    \/ CallerStep({"c1"})
    \/ \E g \in Gens : WriterWrite(g)
    \/ StartBegin("s1")
    \/ StartDaemonSpawn("s1")
    \/ StartDaemonAttach("s1", MaxStarts)
    \/ \E err \in DaemonErrors \cup {NoError}, fallback \in BOOLEAN :
           StartDaemonFailed("s1", err, fallback)
    \/ StartEmbeddedAttach("s1", TRUE, MaxStarts)
    \/ StartEmbeddedFinish("s1")

SpecFallback == Init /\ [][NextFallback]_vars

\* start is called when no call of stop is running.
StartBeginAfterStop(s) == stopPc = "idle" /\ StartBegin(s)

\* stop is called when no call of start is running.
StopKillAfterStart == (\A s \in Starters : spc[s] = "idle") /\ StopKill

\* Events on two transports: start, stop and start again one after the
\* other, with the reader thread of the first transport still there.
NextHandlers ==
    \/ EventStep
    \/ StartBeginAfterStop("s1")
    \/ StartDaemonAttach("s1", MaxTransports)
    \/ \E err \in DaemonErrors \cup {NoError}, fallback \in BOOLEAN :
           StartDaemonFailed("s1", err, fallback)
    \/ \E spawned \in BOOLEAN : StartEmbeddedAttach("s1", spawned, MaxTransports)
    \/ StartEmbeddedFinish("s1")
    \/ StopKillAfterStart
    \/ StopClear
    \/ StopDrain

SpecHandlers == Init /\ [][NextHandlers]_vars

\* One caller, the writer task, and calls of start and stop made one after
\* the other: start, stop, start.
NextStopStart ==
    \/ CallerStep({"c1"})
    \/ \E g \in Gens : WriterWrite(g)
    \/ StartBeginAfterStop("s1")
    \/ StartDaemonAttach("s1", MaxTransports)
    \/ \E err \in DaemonErrors \cup {NoError}, fallback \in BOOLEAN :
           StartDaemonFailed("s1", err, fallback)
    \/ \E spawned \in BOOLEAN : StartEmbeddedAttach("s1", spawned, MaxTransports)
    \/ StartEmbeddedFinish("s1")
    \/ StopKillAfterStart
    \/ StopClear
    \/ StopDrain

SpecStopStart == Init /\ [][NextStopStart]_vars

(***************************************************************************)
(* Claims.                                                                 *)
(***************************************************************************)
\* The ids in a sequence or table.
Range(f) == {f[x] : x \in DOMAIN f}

\* The messages of the error kind TransportNotRunning.
TransportNotRunning == {ErrNotHealthy, ErrNotRunning, ErrSendFailed}

\* The messages of the four transient kinds: timeout, enqueue failure,
\* transport not running, one-shot channel closed.
TransientKinds == {ErrTimeout, ErrSendFailed, ErrNotRunning, ErrChannelClosed}

\* This step is the reader thread of transport g taking a line.
ReaderReads(g) == inbound[g] # << >> /\ inbound'[g] = Tail(inbound[g])

\* The line is an event; the line is not valid JSON.
IsEvent(line) == DOMAIN line = {"type", "data"}
NotJson(line) == line \in {LogLine, EmptyLine, BinaryLine}

\* This step is the drain of the pending table by stop.
StopDrains == stopPc = "drain" /\ stopPc' = "idle"

\* This step puts a line into the channel of transport g.
LineEnqueued(g) == Len(queue'[g]) > Len(queue[g])

\* This step ends the running attempt of caller c.
AttemptEnds(c) ==
    /\ pc[c] \in {"attempt", "enqueue", "blocked", "await"}
    /\ \/ pc'[c] = "done"
       \/ pc'[c] = "attempt" /\ attempt'[c] # attempt[c]

\* This step leaves caller c alone.
Untouched(c) ==
    /\ pc'[c] = pc[c]
    /\ id'[c] = id[c]
    /\ rx'[c] = rx[c]
    /\ attempt'[c] = attempt[c]
    /\ result'[c] = result[c]

\* C1: request ids come from a counter that only increases and is never
\* reset by stop or start: the ids are issued in strictly increasing order,
\* the counter is the last id issued, running attempts hold distinct issued
\* ids, and every key of the pending table is an issued id.
C1_IdsUnique ==
    /\ \A m, n \in 1..Len(issued) : m < n => issued[m] < issued[n]
    /\ request_counter = IF issued = << >> THEN 0 ELSE issued[Len(issued)]
    /\ \A c \in Callers : id[c] # 0 => id[c] \in Range(issued)
    /\ \A c, d \in Callers : (c # d /\ id[c] # 0) => id[c] # id[d]
    /\ DOMAIN pending_requests \subseteq Range(issued)

\* C1 witness: a stop has returned, and the one id issued since it drained
\* the table is larger than the ids issued before.
C1_Witness ==
    /\ Stopped
    /\ request_counter >= 2
    /\ DOMAIN pending_requests = {request_counter}

\* C2: when the reader thread reads a response whose id is in the pending
\* table, the entry is gone from the table in the state in which the waiter
\* has the response, the waiter that owns the entry (and no other caller)
\* completes its attempt with that response, and a response whose id is not
\* in the table (a duplicate, an unknown id) changes neither the table nor
\* any caller.
C2_ReaderDelivery ==
    [][\A g \in Gens : ReaderReads(g) =>
        LET r == Head(inbound[g])
            out == IF r.success THEN Ok("result") ELSE Err(r.error[1])
        IN  IF r.id \in DOMAIN pending_requests
            THEN LET w == pending_requests[r.id]
                 IN  /\ r.id \notin DOMAIN pending_requests'
                     /\ \A j \in DOMAIN pending_requests \ {r.id} :
                            /\ j \in DOMAIN pending_requests'
                            /\ pending_requests'[j] = pending_requests[j]
                     /\ IF pc[w] = "await" /\ id[w] = r.id
                        THEN \/ pc'[w] = "done" /\ result'[w] = out
                             \/ pc'[w] = "attempt" /\ last_error'[w] = out.val
                        ELSE Untouched(w)
                     /\ \A c \in Callers \ {w} : Untouched(c)
            ELSE /\ pending_requests' = pending_requests
                 /\ \A c \in Callers : Untouched(c)
      ]_vars

\* C2 witness: one caller has received the result of its request, the other
\* awaits its own, and the reader is about to read a response whose id is
\* not in the table.
C2_Witness ==
    \E g \in Gens, c, d \in Callers :
        /\ inbound[g] # << >>
        /\ Head(inbound[g]).id \notin DOMAIN pending_requests
        /\ pc[c] = "done" /\ result[c] = Ok("result")
        /\ pc[d] = "await"

\* C3: an attempt that cannot enqueue its request returns
\* TransportNotRunning and its id is not in the pending table afterwards.
C3_FailedEnqueueRemovesEntry ==
    [][\A c \in Callers :
          (/\ pc[c] \in {"enqueue", "blocked"}
           /\ AttemptEnds(c)
           /\ \A g \in Gens : ~LineEnqueued(g))
          => /\ id[c] \notin DOMAIN pending_requests'
             /\ (IF pc'[c] = "done" THEN result'[c].val ELSE last_error'[c])
                    \in TransportNotRunning
      ]_vars

C6_WorkerErrorReturned ==
    [][\A g \in Gens : ReaderReads(g) =>
        LET r == Head(inbound[g])
        IN  (~r.success /\ r.id \in DOMAIN pending_requests) =>
                LET w == pending_requests[r.id]
                IN  (pc[w] = "await" /\ id[w] = r.id) =>
                        /\ pc'[w] = "done"
                        /\ result'[w] = Err(r.error[1])
      ]_vars

\* C7: a call makes at most 3 attempts; after a failed attempt it makes
\* another one if and only if the failure is of one of the four transient
\* kinds (not an error of the worker, not the stop error) and fewer than 3
\* attempts have been made, and otherwise returns the failure.
C7_RetryPolicy ==
    [][\A c \in Callers : AttemptEnds(c) =>
        LET again == pc'[c] = "attempt"
            failed == again \/ ~result'[c].ok
            e == IF again THEN last_error'[c] ELSE result'[c].val
            transient == /\ e \in TransientKinds
                         /\ ~StopDrains
                         /\ \A g \in Gens : ~ReaderReads(g)
        IN  /\ attempt'[c] <= DEFAULT_RETRY_ATTEMPTS
            /\ failed =>
                  (again <=> (transient /\ attempt[c] < DEFAULT_RETRY_ATTEMPTS))
            /\ again => attempt'[c] = attempt[c] + 1
      ]_vars

\* C8: through a call the idempotency key of the caller does not change and
\* the attempt number starts at 1 and goes up by one per attempt, up to 3;
\* every line put into a channel carries the key, the attempt number and
\* the id of the attempt that sends it, an id no line before it carried;
\* and the writer puts the lines on the wire in the order of the channel.
C8_EnvelopeAcrossRetries ==
    [][/\ \A c \in Callers :
             IF pc[c] \in {"idle", "done"}
             THEN pc'[c] # pc[c] => attempt'[c] = 1
             ELSE /\ key'[c] = key[c]
                  /\ attempt'[c] \in {attempt[c], attempt[c] + 1}
                  /\ attempt'[c] <= DEFAULT_RETRY_ATTEMPTS
       /\ \A g \in Gens : LineEnqueued(g) =>
             LET line == queue'[g][Len(queue'[g])]
             IN  /\ queue'[g] = Append(queue[g], line)
                 /\ \E c \in Callers :
                       /\ pc[c] \in {"enqueue", "blocked"}
                       /\ line.id = id[c]
                       /\ line.params._idempotencyKey = key[c]
                       /\ line.params._retryAttempt = attempt[c]
                 /\ \A h \in Gens :
                       \A old \in Range(wire[h]) \cup Range(queue[h]) :
                           old.id # line.id
       /\ \A g \in Gens :
             \/ wire'[g] = wire[g]
             \/ queue[g] # << >> /\ wire'[g] = Append(wire[g], Head(queue[g]))
      ]_vars

\* C8 witness: the wire holds the three lines of one call, with the same
\* key, the attempt numbers 1, 2, 3 and three ids, and the call has returned
\* the timeout of the third.
C8_Witness ==
    \E g \in Gens, c \in Callers :
        /\ Len(wire[g]) = DEFAULT_RETRY_ATTEMPTS
        /\ \A n \in 1..Len(wire[g]) :
              /\ wire[g][n].params._retryAttempt = n
              /\ wire[g][n].params._idempotencyKey = key[c]
        /\ Cardinality({wire[g][n].id : n \in 1..Len(wire[g])})
               = DEFAULT_RETRY_ATTEMPTS
        /\ pc[c] = "done" /\ result[c] = Err(ErrTimeout)

\* C9: an attempt that begins while the writer is marked unhealthy or no
\* writer channel is bound fails with TransportNotRunning in that step: no
\* id is allocated and nothing is inserted into the pending table.
C9_RejectedBeforeAllocation ==
    [][\A c \in Callers :
          (/\ pc[c] = "attempt"
           /\ pc'[c] # "attempt"
           /\ (tx = 0 \/ ~stdin_healthy))
          => /\ request_counter' = request_counter
             /\ pending_requests' = pending_requests
             /\ pc'[c] = "done"
             /\ ~result'[c].ok
             /\ result'[c].val \in TransportNotRunning
      ]_vars

\* C10: an attempt that begins when the writer task of the bound transport
\* has failed, or its reader thread has ended, is rejected in that step with
\* TransportNotRunning: it does not go on to put its request into the
\* channel.
C10_RejectedAfterTaskFailure ==
    [][\A c \in Callers :
          (/\ pc[c] = "attempt"
           /\ pc'[c] # "attempt"
           /\ tx # 0
           /\ (~writerAlive[tx] \/ ~readerAlive[tx]))
          => /\ pc'[c] = "done"
             /\ ~result'[c].ok
             /\ result'[c].val \in TransportNotRunning
      ]_vars

\* C11: the mode changes only from Disconnected to an active mode or from
\* an active mode to Disconnected, never from one active mode to the other.
C11_ModeTransitionsLinear ==
    [][mode' # mode => (mode = "Disconnected" \/ mode' = "Disconnected")]_vars

\* This step is a call of start by s returning Ok after the check of
\* is_running: the daemon is attached, the embedded worker is stored, or a
\* child is held already.
StartReturnsOk(s) ==
    /\ spc'[s] = "idle"
    /\ \/ spc[s] = "connect" /\ ngen' # ngen
       \/ spc[s] = "attached"
       \/ spc[s] = "embedded" /\ process # 0

C13_StoppedRequestsNotSent ==
    [][\A g \in Gens \ {1} : LineEnqueued(g) =>
          \A c \in Callers :
              (/\ pc[c] \in {"enqueue", "blocked"}
               /\ queue'[g][Len(queue'[g])].id = id[c])
              => rx[c] = << >>
      ]_vars

\* C14: an attempt whose deadline passes before its response arrives ends
\* with the timeout error and its id leaves the pending table; a response
\* read for an id that is not in the table (it arrives after the timeout) is
\* discarded: it changes no caller (the retry of the same call included) and
\* not the table.
C14_TimeoutDiscardsLateResponse ==
    [][/\ \A c \in Callers :
             (/\ pc[c] = "await"
              /\ SenderAlive(c)
              /\ AttemptEnds(c)
              /\ \A g \in Gens : ~ReaderReads(g))
             => /\ id[c] \notin DOMAIN pending_requests'
                /\ \/ pc'[c] = "attempt" /\ last_error'[c] = ErrTimeout
                   \/ pc'[c] = "done" /\ result'[c] = Err(ErrTimeout)
       /\ \A g \in Gens :
             (/\ ReaderReads(g)
              /\ \E c \in Callers : last_error[c] = ErrTimeout
              /\ Head(inbound[g]).id \notin DOMAIN pending_requests)
             => /\ \A c \in Callers : Untouched(c) /\ last_error'[c] = last_error[c]
                /\ pending_requests' = pending_requests
      ]_vars

\* C14 witness: the only caller is in a retry after a timeout and awaits the
\* response of its new id, while the reader is about to read the response
\* to the id of the attempt that timed out.
C14_Witness ==
    \E g \in Gens, c \in Callers :
        /\ \A d \in Callers \ {c} : pc[d] = "idle"
        /\ pc[c] = "await"
        /\ attempt[c] >= 2
        /\ last_error[c] = ErrTimeout
        /\ inbound[g] # << >>
        /\ Head(inbound[g]).id \in Range(issued) \ DOMAIN pending_requests
        /\ Head(inbound[g]).id < id[c]

\* C15: every call of send_command terminates, also when the worker never
\* responds and never reads its input: a call that has begun reaches its
\* return (or the model's bound on the request ids is exhausted).
C15_SendCommandTerminates ==
    \A c \in Callers :
        (pc[c] \in {"attempt", "enqueue", "blocked", "await"})
            ~> (pc[c] = "done" \/ request_counter = MaxRequests)

\* C16: the handler is invoked exactly once, in the order of arrival, for
\* every event the reader reads while a handler is installed; an event read
\* while there is no handler is dropped; the handler is invoked for nothing
\* else; a line that is not valid JSON is skipped: reading it changes neither
\* the pending table nor any caller nor the handler's invocations, and the
\* reader thread goes on reading.
C16_EventDelivery ==
    [][/\ \A g \in Gens : ReaderReads(g) =>
             LET line == Head(inbound[g])
             IN  /\ handled' =
                        IF IsEvent(line) /\ event_handler # 0
                        THEN Append(handled, <<g, line.data>>)
                        ELSE handled
                 /\ NotJson(line) =>
                        /\ pending_requests' = pending_requests
                        /\ \A c \in Callers : Untouched(c)
                        /\ readerAlive'[g]
       /\ (\A g \in Gens : ~ReaderReads(g)) => handled' = handled
      ]_vars

\* C17: the event handler never executes for two events at the same time,
\* also when the reader threads of two transports are there.
C17_HandlerNotConcurrent ==
    Cardinality({g \in Gens : handling[g]}) <= 1

\* C17 witness: the reader thread of the first transport is in the handler
\* while the reader thread of the second transport has an event to deliver.
C17_Witness ==
    /\ readerAlive[1] /\ readerAlive[2]
    /\ handling[1]
    /\ inbound[2] # << >>
    /\ IsEvent(Head(inbound[2]))
    /\ event_handler # 0

\* C18: a request put into the writer channel carries an authToken exactly
\* when the mode is Daemon at that time, and the token is then the one read
\* at attach; in Daemon mode the stored token is never missing.
C18_AuthTokenIffDaemon ==
    [][/\ \A g \in Gens : LineEnqueued(g) =>
             LET line == queue'[g][Len(queue'[g])]
             IN  /\ line.authToken # NoToken <=> mode = "Daemon"
                 /\ mode = "Daemon" => line.authToken = daemon_auth_token
       /\ mode = "Daemon" => daemon_auth_token = DaemonToken
      ]_vars

\* C19: when the daemon transport has failed, for whatever reason, and the
\* fallback is enabled, start spawns the embedded sidecar, and it returns in
\* EmbeddedSidecar mode with is_running true; when the fallback is disabled
\* start returns the error: nothing is spawned or attached and the mode is
\* Disconnected.
C19_FallbackToEmbedded ==
    [][\A s \in Starters :
          /\ (/\ spc[s] = "embedded"
              /\ daemon_err \in DaemonErrors
              /\ spc'[s] # "embedded")
             => spc'[s] = "attached" /\ ngen' = ngen + 1
          /\ (spc[s] = "attached" /\ spc'[s] = "idle")
             => mode' = "EmbeddedSidecar" /\ is_running' /\ s \in returned'
          /\ (spc[s] \in {"connect", "spawned"} /\ spc'[s] = "idle" /\ tx' = tx)
             => /\ mode' = "Disconnected"
                /\ ngen' = ngen
                /\ process' = 0
                /\ returned' = returned
      ]_vars

NextChildren ==
    \/ StartBeginAfterStop("s1")
    \/ StartDaemonSpawn("s1")
    \/ StartDaemonAttach("s1", MaxTransports)
    \/ \E err \in DaemonErrors \cup {NoError}, fallback \in BOOLEAN :
           StartDaemonFailed("s1", err, fallback)
    \/ \E spawned \in BOOLEAN : StartEmbeddedAttach("s1", spawned, MaxTransports)
    \/ StartEmbeddedFinish("s1")
    \/ StopKillAfterStart
    \/ StopClear
    \/ StopDrain
    \/ IsRunning
    \/ \E g \in Gens : PeerExit(g)
    \/ DaemonExit
    \/ Drop

SpecChildren == Init /\ [][NextChildren]_vars

\* The manager holds no handle of a child, and the daemon it has spawned
\* does not run.
NoChildLeft == process = 0 /\ daemon_process = 0 /\ ~daemonAlive

\* C21: when stop returns, and when the manager has been dropped, the
\* supervisor holds no handle of a child and no child it has spawned, the
\* embedded worker or the daemon, is left running.
C21_ChildrenReleased ==
    [][(StopDrains \/ Drop) => NoChildLeft']_vars

(***************************************************************************)
(* The envelope on JSON values.                                            *)
(***************************************************************************)
MaxMicros == 12
EnvelopeKeys == {"_idempotencyKey", "_retryAttempt"}
\* The params a caller passes: values that are no object, and the objects
\* over a few keys, the names of the envelope among them.
ParamKeys == {"a", "payload"} \cup EnvelopeKeys
ParamLeaves == {JNull, JNumber(1), JString(<<"x">>)}
ParamObjects ==
    UNION {[K -> {JNumber(1), JString(<<"x">>)}] : K \in SUBSET ParamKeys}
ParamValues ==
    ParamLeaves \cup {JArray(<< >>), JArray(<<JNumber(1)>>)}
        \cup {JObject(m) : m \in ParamObjects}
CommandNames == {<< >>, <<"p", "i", "n", "g">>}

\* send_command is entered: the key is formatted from the command and the
\* clock.
InitEnvelope ==
    /\ InitManager
    /\ call_params \in ParamValues
    /\ \E command \in CommandNames, micros \in {0, 7, MaxMicros} :
           call_key = format_key(command, micros)
    /\ retry = 0
    /\ observed = JNull
    /\ VaultIdle
    /\ FilesIdle
    /\ ServiceIdle
    /\ EndpointIdle
    /\ StreamIdle
    /\ ClockIdle
    /\ KeychainIdle

\* One more attempt of the loop of send_command builds its call_params.
EnvelopeAttempt ==
    /\ retry < DEFAULT_RETRY_ATTEMPTS
    /\ retry' = retry + 1
    /\ observed' = with_envelope(call_params, call_key, retry + 1)
    /\ UNCHANGED <<outsideEnvelope, call_params, call_key>>

NextEnvelope == EnvelopeAttempt

SpecEnvelope == InitEnvelope /\ [][NextEnvelope]_vars

\* The envelope keys of the running attempt: the key of the call, which is
\* not empty, and the number of the attempt.
EnvelopeSet ==
    /\ observed.kind = "object"
    /\ EnvelopeKeys \subseteq DOMAIN observed.map
    /\ observed.map["_idempotencyKey"] = JString(call_key)
    /\ call_key # << >>
    /\ observed.map["_retryAttempt"] = JNumber(retry)
    /\ retry >= 1

\* C22: for params that is an object the worker observes the
\* original params plus exactly the two envelope keys, every original key
\* and value preserved; for params that is no object it observes exactly
\* the payload and the two envelope keys.
C22_EnvelopePreservesParams ==
    retry > 0 =>
        /\ EnvelopeSet
        /\ IF call_params.kind = "object"
           THEN /\ DOMAIN observed.map = DOMAIN call_params.map \cup EnvelopeKeys
                /\ \A x \in DOMAIN call_params.map : observed.map[x] = call_params.map[x]
           ELSE /\ DOMAIN observed.map = {"payload"} \cup EnvelopeKeys
                /\ observed.map["payload"] = call_params

\* What send_command keeps of an object: every original key other than the
\* two envelope keys, with its value.
EnvelopeAdded ==
    retry > 0 =>
        /\ EnvelopeSet
        /\ IF call_params.kind = "object"
           THEN /\ DOMAIN observed.map = DOMAIN call_params.map \cup EnvelopeKeys
                /\ \A x \in DOMAIN call_params.map \ EnvelopeKeys :
                       observed.map[x] = call_params.map[x]
           ELSE /\ DOMAIN observed.map = {"payload"} \cup EnvelopeKeys
                /\ observed.map["payload"] = call_params

(***************************************************************************)
(* The credential vault.                                                   *)
(***************************************************************************)
\* Names of services and accounts, a dotted service name as the one of the
\* connector seed among them, and the secrets.
Services == {<<"a">>, <<"a", ".", "b">>}
Accounts == {<<"c">>, <<"b", ".", "c">>}
Pairs == Services \X Accounts
Secrets == {"v1", "v2"}

\* The value fallback_get_secret returns for a pair on the vault file.
Get(file, pair) == fallback_get_secret(file, pair[1], pair[2])

\* The pair of the command of task p.
PairOf(p) == <<cop[p].service, cop[p].account>>

\* The command op of task p returns.
Returns(p, op) == cop[p].op = op /\ cpc[p] # "idle" /\ cpc'[p] = "idle"

\* credentials_set, credentials_delete and credentials_get, entered by the
\* tasks T.
CommandBegin(T, ops) ==
    \E p \in T, op \in ops, pair \in Pairs, value \in Secrets :
        CredBegin(p, op, pair[1], pair[2], IF op = "set" THEN value ELSE NoValue)

\* get_or_create_sidecar_connector_seed, entered by the tasks T.
SeedBegin(T) ==
    \E p \in T : CredBegin(p, "seed", CONNECTOR_SECRET_SERVICE,
                           CONNECTOR_SECRET_ACCOUNT, NoValue)

\* The vault files a set can have left behind: no entry or one entry.
StoresOfOne ==
    {<< >>} \cup
    {map_insert(<< >>, fallback_key(pair[1], pair[2]), encrypt_secret("v1", 0)) :
        pair \in Pairs}

InitVaultRace ==
    /\ InitManager
    /\ EnvelopeIdle
    /\ FilesIdle
    /\ ServiceIdle
    /\ EndpointIdle
    /\ StreamIdle
    /\ ClockIdle
    /\ KeychainIdle
    /\ vault_file \in StoresOfOne
    /\ plaintext_file = None
    /\ cpc = [p \in Tasks |-> "idle"]
    /\ cop = [p \in Tasks |-> NoOp]
    /\ cstore = [p \in Tasks |-> << >>]
    /\ cresult = [p \in Tasks |-> Ok(None)]
    /\ nops = 0
    /\ seeds_out = {}
    /\ env_parent = None
    /\ child_env = None

\* Two tasks that set and delete credentials at the same time.
NextVaultRace ==
    \/ CommandBegin(Tasks, {"set", "delete"})
    \/ \E p \in Tasks : VaultRead(p, FALSE)
    \/ \E p \in Tasks, nonce \in {0} : VaultWrite(p, nonce)

SpecVaultRace == InitVaultRace /\ [][NextVaultRace]_vars

\* What the command of task p, which has returned, has to leave in the vault.
Effect(p) ==
    Get(vault_file, PairOf(p)) =
        IF cop[p].op = "set" THEN Some(cop[p].value) ELSE None

\* C23: when two set calls, or a set and a delete, on different keys have
\* run, at the same time or not, the vault file holds the effect of both.
C23_NoLostUpdate ==
    ( /\ nops = 2
      /\ \A p \in Tasks : cpc[p] = "idle" /\ cop[p].op \in {"set", "delete"}
      /\ \E p \in Tasks : cop[p].op = "set"
      /\ fallback_key(cop["t1"].service, cop["t1"].account)
             # fallback_key(cop["t2"].service, cop["t2"].account) )
        => \A p \in Tasks : Effect(p)

\* One task that gets, sets and deletes credentials, one command after the
\* other.
NextVault ==
    \/ CommandBegin({"t1"}, {"get", "set", "delete"})
    \/ VaultRead("t1", FALSE)
    \/ \E nonce \in Nonces : VaultWrite("t1", nonce)

SpecVault == Init /\ [][NextVault]_vars

\* The laws of get, set and delete on the pair of the command that returns,
\* and the pairs others the command must leave as they are.
VaultLaws(p, others) ==
    /\ Returns(p, "set") => Get(vault_file', PairOf(p)) = Some(cop[p].value)
    /\ Returns(p, "delete") => Get(vault_file', PairOf(p)) = None
    /\ Returns(p, "get") => cresult'[p] = Ok(Get(vault_file, PairOf(p)))
    /\ (Returns(p, "set") \/ Returns(p, "delete") \/ Returns(p, "get")) =>
           \A other \in others : Get(vault_file', other) = Get(vault_file, other)

\* C24: under the vault-only backend a get returns what the vault holds for
\* its key, after set(k, v) the vault holds v for k, after delete(k) it holds
\* nothing for k, and no command changes what is stored under another key.
C24_VaultLaws ==
    [][VaultLaws("t1", Pairs \ {PairOf("t1")})]_vars

\* The same with the other keys taken as the strings of the vault file.
VaultLawsOfFileKeys ==
    [][VaultLaws("t1", {pair \in Pairs :
                           fallback_key(pair[1], pair[2])
                               # fallback_key(PairOf("t1")[1], PairOf("t1")[2])})]_vars

\* Two tasks that ask for the connector seed, with reads of the vault that
\* fail.
NextSeed ==
    \/ SeedBegin(Tasks)
    \/ \E p \in Tasks, failed \in BOOLEAN : SeedGet(p, failed)
    \/ \E p \in Tasks : VaultRead(p, FALSE)
    \/ \E p \in Tasks, nonce \in Nonces : VaultWrite(p, nonce)

SpecSeed == Init /\ [][NextSeed]_vars

\* C25: a call of get_or_create_sidecar_connector_seed returns the seed that
\* the calls returned which had returned when it was entered.
C25_SeedStable ==
    [][\A p \in Tasks :
          Returns(p, "seed") =>
              \A seed \in cop[p].seen : cresult'[p] = Ok(Some(seed))]_vars

\* The legacy files: entries keyed service.account, and an entry whose key
\* has no dot.
LegacyKeys == {fallback_key(pair[1], pair[2]) : pair \in Pairs} \cup {<<"n">>}
LegacyStores ==
    UNION {[K -> Secrets] : K \in {S \in SUBSET LegacyKeys :
                                      Cardinality(S) \in {1, 2}}}

InitMigrate ==
    /\ InitManager
    /\ EnvelopeIdle
    /\ FilesIdle
    /\ ServiceIdle
    /\ EndpointIdle
    /\ StreamIdle
    /\ ClockIdle
    /\ KeychainIdle
    /\ vault_file \in StoresOfOne
    /\ plaintext_file \in {None} \cup {Some(store) : store \in LegacyStores}
    /\ cpc = [p \in Tasks |-> "idle"]
    /\ cop = [p \in Tasks |-> NoOp]
    /\ cstore = [p \in Tasks |-> << >>]
    /\ cresult = [p \in Tasks |-> Ok(None)]
    /\ nops = 0
    /\ seeds_out = {}
    /\ env_parent = None
    /\ child_env = None

\* One task whose first command finds a legacy file, or none.
NextMigrate ==
    \/ CommandBegin({"t1"}, {"get", "set"})
    \/ VaultRead("t1", FALSE)
    \/ \E nonce \in Nonces : VaultWrite("t1", nonce)

SpecMigrate == InitMigrate /\ [][NextMigrate]_vars

\* Task p enters a command: migrate_plaintext_stores_if_needed runs.
Migrates(p) == cpc[p] = "idle" /\ cpc'[p] # "idle"

InitSpawn ==
    /\ InitManager
    /\ EnvelopeIdle
    /\ FilesIdle
    /\ ServiceIdle
    /\ EndpointIdle
    /\ StreamIdle
    /\ ClockIdle
    /\ KeychainIdle
    /\ vault_file = << >>
    /\ plaintext_file = None
    /\ cpc = [p \in Tasks |-> "idle"]
    /\ cop = [p \in Tasks |-> NoOp]
    /\ cstore = [p \in Tasks |-> << >>]
    /\ cresult = [p \in Tasks |-> Ok(None)]
    /\ nops = 0
    /\ seeds_out = {}
    /\ env_parent \in {None, Some("env1")}
    /\ child_env = None

\* apply_connector_secret_seed_env, entered by the tasks T.
SpawnBegin(T) ==
    \E p \in T : CredBegin(p, "spawn", CONNECTOR_SECRET_SERVICE,
                           CONNECTOR_SECRET_ACCOUNT, NoValue)

NextSpawn ==
    \/ SpawnBegin({"t1"})
    \/ \E failed \in BOOLEAN : SeedGet("t1", failed)
    \/ \E failed \in BOOLEAN : VaultRead("t1", failed)
    \/ \E nonce \in Nonces : VaultWrite("t1", nonce)

SpecSpawn == InitSpawn /\ [][NextSpawn]_vars

\* C26: the child the supervisor spawns gets as COWORK_CONNECTOR_SECRET_KEY
\* the value of the variable in the supervisor's environment when it is set
\* there, and the stored connector seed otherwise.
C26_ChildSeedEnv ==
    [][Returns("t1", "spawn") =>
          child_env' = IF env_parent # None
                       THEN env_parent
                       ELSE Get(vault_file', <<CONNECTOR_SECRET_SERVICE,
                                              CONNECTOR_SECRET_ACCOUNT>>)]_vars

\* The same for a supervisor whose environment does not set the variable and
\* whose call for the seed returns one.
ChildSeedEnvUnset ==
    [][(Returns("t1", "spawn") /\ env_parent = None /\ cresult'["t1"].ok) =>
          child_env' = Get(vault_file', <<CONNECTOR_SECRET_SERVICE,
                                         CONNECTOR_SECRET_ACCOUNT>>)]_vars

(***************************************************************************)
(* The file commands.                                                      *)
(***************************************************************************)
\* The paths the commands are called with: files and directories under a
\* blocked path and under the home directory, with and without a parent
\* that exists, through ".." and through a link.
InputPaths ==
    {<<"etc">>, <<"etc", "f">>, <<"etc", "new", "f">>, <<"etcetera", "f">>,
     HomeDir, <<"home", "u", "f">>, <<"home", "u", "new", "f">>,
     <<"home", "u", "l">>, <<"home", "u", "..", "..", "etc", "f">>,
     <<"home", "u", "..", "u", "f">>}

NextFiles ==
    \/ \E path \in InputPaths : read_file(path)
    \/ \E path \in InputPaths : list_directory(path)
    \/ \E path \in InputPaths : write_file(path)

SpecFiles == Init /\ [][NextFiles]_vars

\* The location lies under a restricted system root, or is one.
Restricted(location) == location # << >> /\ location[1] \in BlockedPaths

\* C28: no file command reads, writes, lists or creates a location under a
\* restricted system root.
C28_NoRestrictedAccess ==
    \A access \in touched : ~Restricted(access[2])

\* The same for read_file and list_directory alone.
NoRestrictedRead ==
    \A access \in touched :
        access[1] \in {"read", "list"} => ~Restricted(access[2])

(***************************************************************************)
(* The service mode: commands in a row over one mode.json, in every        *)
(* environment (home directory resolvable or not, state file writable or   *)
(* not) and over every stale mode.json an earlier run can have left.       *)
(***************************************************************************)
ModeArgs == {None} \cup {Some(str) : str \in ModeStrings}

\* What mode.json holds at the start, with the mode that was last saved: a
\* mode was saved only where the home directory can be resolved.
StartingModeFiles ==
    {<<None, None>>, <<Some(NotUtf8Text), None>>, <<Some(NotJsonText), None>>,
     <<Some(ModeState(<<"r","o","o","t">>)), None>>,
     <<Some(ModeState(as_str(System))), Some(System)>>}

InitService ==
    /\ InitManager
    /\ EnvelopeIdle
    /\ VaultIdle
    /\ FilesIdle
    /\ EndpointIdle
    /\ StreamIdle
    /\ ClockIdle
    /\ KeychainIdle
    /\ home_ok \in BOOLEAN
    /\ state_writable \in BOOLEAN
    /\ \E start \in StartingModeFiles :
           /\ mode_file = start[1]
           /\ persisted = start[2]
           /\ app_dir = (start[1] # None)
           /\ start[2] # None => home_ok
    /\ service_log = << >>
    /\ svc_result = [op |-> "none", given |-> None, res |-> Ok(User)]
    /\ nsvc = 0

NextService ==
    \/ service_get_mode
    \/ \E str \in ModeStrings : service_set_mode(str)
    \/ \E given \in ModeArgs, outcome \in Outcomes :
           service_status(given, outcome)
    \/ \E given \in ModeArgs, outcome \in Outcomes :
           service_install(given, outcome)
    \/ \E given \in ModeArgs, outcome \in Outcomes :
           service_uninstall(given, outcome)
    \/ \E given \in ModeArgs, outcome \in Outcomes :
           service_start(given, outcome)
    \/ \E given \in ModeArgs, outcome \in Outcomes :
           service_stop(given, outcome)
    \/ \E given \in ModeArgs, outcome \in Outcomes :
           service_restart(given, outcome)

SpecService == InitService /\ [][NextService]_vars

\* The mode an omitted argument stands for, given the last mode saved.
DefaultMode(saved) == IF saved = None THEN User ELSE saved[1]

\* C29: a service operation that omits the mode acts with the mode most
\* recently persisted (by an install that succeeded or by set-mode), with user
\* when nothing valid is persisted; status, start, stop, restart and uninstall
\* leave the persisted mode as it was; and an operation given an invalid mode
\* string fails with no side effect: no directory created, no mode written, no
\* platform operation carried out.
C29_ModeResolution ==
    [][nsvc' # nsvc =>
          LET last == svc_result'
              n == Len(service_log')
          IN  /\ (last.given = None /\ n > Len(service_log))
                     => service_log'[n] = <<last.op, DefaultMode(persisted)>>
              /\ (last.given = None /\ last.res.ok)
                     => last.res.val = DefaultMode(persisted)
              /\ last.op \in {"status", "start", "stop", "restart", "uninstall"}
                     => mode_file' = mode_file /\ persisted' = persisted
              /\ (persisted' # persisted \/ mode_file' # mode_file)
                     => /\ last.op \in {"install", "set_mode"}
                        /\ mode_file' = Some(ModeState(as_str(persisted'[1])))
              /\ (last.given # None /\ ~ModeOfString[last.given[1]].ok)
                     => /\ ~last.res.ok
                        /\ UNCHANGED <<app_dir, mode_file, persisted,
                                       service_log>>]_vars

\* An install persisted system, and a later stop without a mode stopped the
\* system service.
C29_Witness ==
    /\ Len(service_log) = 2
    /\ service_log[1] = <<"install", System>>
    /\ service_log[2] = <<"stop", System>>
    /\ svc_result.op = "stop"
    /\ svc_result.given = None
    /\ svc_result.res = Ok(System)
    /\ persisted = Some(System)
    /\ mode_file = Some(ModeState(as_str(System)))

(***************************************************************************)
(* The daemon TCP port of every username of the environment: every string  *)
(* of up to MaxNameLen characters of a small alphabet, and some longer     *)
(* names, among them names whose hash is negative and one whose hash is    *)
(* i32::MIN.                                                               *)
(***************************************************************************)
MaxNameLen == 2
NameChars == {"a", "Z", "9", ".", " ", "_"}
ShortNames ==
    UNION {[1..n -> NameChars] : n \in 0..MaxNameLen}
LongNames ==
    {<<"p","o","l","y","g","e","n","e","l","u","b","r","i","c","a","n","t","s">>,
     <<"z","z","z","z","z","z","z">>,
     <<" ","J",".","D","o","e"," ">>,
     <<"r","o","o","t">>,
     <<"a","d","m","i","n","_","0","1">>}
EnvUsers == {None} \cup {Some(name) : name \in ShortNames \cup LongNames}

InitEndpoint ==
    /\ InitManager
    /\ EnvelopeIdle
    /\ VaultIdle
    /\ FilesIdle
    /\ ServiceIdle
    /\ StreamIdle
    /\ ClockIdle
    /\ KeychainIdle
    /\ env_user \in EnvUsers
    /\ port_pc = "idle"
    /\ sanitized = << >>
    /\ hashed = 0
    /\ hash = <<0, 0>>
    /\ tcp_port = [value |-> 0, overflow |-> FALSE]

NextEndpoint ==
    \/ DaemonTcpPortBegin
    \/ DaemonTcpPortHash
    \/ DaemonTcpPortReturn

SpecEndpoint == InitEndpoint /\ [][NextEndpoint]_vars

\* h := 31 * h + byte in 32 bits, over the bytes of a string, from 0.
RECURSIVE Hash31(_)
Hash31(str) ==
    IF str = << >> THEN <<0, 0>>
    ELSE LET h == Hash31(SubSeq(str, 1, Len(str) - 1))
             low == 31 * h[2] + as_byte(str[Len(str)])
         IN  <<(31 * h[1] + (low \div Half)) % Half, low % Half>>

\* |h| mod 1000 of the signed 32-bit number with the halves h.
AbsMod1000(h) ==
    IF h[1] < 32768 THEN (h[1] * Half + h[2]) % 1000
    ELSE (((2147483647 - ((h[1] - 32768) * Half + h[2])) % 1000) + 1) % 1000

\* C30: the port daemon_tcp_port returns is 39100 + (|h| mod 1000), h the
\* 32-bit wrapping hash h := 31*h + byte over the sanitized username; it is a
\* function of the sanitized username, lies in 39100..40099, and the u16 sum
\* has not overflowed, also when h is i32::MIN.
C30_PortOfUsername ==
    port_pc = "done" =>
        /\ hash = Hash31(sanitized)
        /\ tcp_port.value = 39100 + AbsMod1000(Hash31(sanitized))
        /\ tcp_port.value \in 39100..40099
        /\ ~tcp_port.overflow

\* The port of a username whose hash is i32::MIN.
C30_Witness ==
    /\ port_pc = "done"
    /\ hash = <<32768, 0>>
    /\ Len(sanitized) = 18
    /\ tcp_port = [value |-> 39748, overflow |-> FALSE]

(***************************************************************************)
(* The writer task seen call by call: two callers, one transport, the      *)
(* peer may go away.                                                       *)
(***************************************************************************)
NextWriter ==
    \/ CallerStep(Callers)
    \/ \E g \in Gens : WriterWriteAll(g)
    \/ \E g \in Gens : WriterNewline(g)
    \/ \E g \in Gens, some \in BOOLEAN : WriterWriteAllFails(g, some)
    \/ \E g \in Gens : WriterNewlineFails(g)
    \/ \E g \in Gens : PeerExit(g)
    \/ StartStep({"s1"}, MaxStarts)

SpecWriter == Init /\ [][NextWriter]_vars

IsPrefix(a, b) == Len(a) <= Len(b) /\ SubSeq(b, 1, Len(a)) = a

\* The complete lines of a stream: the bytes of a line with a newline next.
RECURSIVE CompleteLines(_)
CompleteLines(pieces) ==
    IF Len(pieces) < 2 THEN << >>
    ELSE IF DOMAIN pieces[1] = {"bytes"} /\ DOMAIN pieces[2] = {"newline"}
         THEN <<pieces[1].bytes>> \o CompleteLines(SubSeq(pieces, 3, Len(pieces)))
    ELSE CompleteLines(Tail(pieces))

\* Nothing follows the bytes of a line but its newline, nothing follows a
\* part of a line, and a newline follows the bytes of a line only.
Framed(pieces) ==
    \A n \in 1..Len(pieces) :
        /\ DOMAIN pieces[n] = {"bytes"} /\ n < Len(pieces)
               => DOMAIN pieces[n + 1] = {"newline"}
        /\ DOMAIN pieces[n] = {"part"} => n = Len(pieces)
        /\ DOMAIN pieces[n] = {"newline"}
               => n > 1 /\ DOMAIN pieces[n - 1] = {"bytes"}

\* The lines of transport g in the order of their enqueueing: written, being
\* written, waiting in the channel.
InOrderOfEnqueue(g) ==
    wire[g] \o (IF writing[g] = None THEN << >> ELSE writing[g]) \o queue[g]

NextAnswers ==
    \/ CallerStep({"c1"})
    \/ \E g \in Gens : WriterWrite(g)
    \/ ReaderStep
    \/ StartStep({"s1"}, MaxStarts)
    \/ StopStep

SpecAnswers == Init /\ [][NextAnswers]_vars

\* The attempt of caller c has its entry in the pending table, or stop has
\* drained the table and sent the synthetic response on its oneshot.
EntryOrStopped(c) ==
    \/ SenderAlive(c)
    \/ pc[c] \in {"enqueue", "blocked"} /\ rx[c] = <<StoppedResponse>>

\* C32: the entry of a request is in the pending table before its line is
\* enqueued: a line is put into a channel only by an attempt whose entry is
\* there (or was drained by stop), and as long as the attempt runs - the line
\* enqueued, written, read by the worker - the entry stays there, so that the
\* response finds it; only the deadline of the attempt and stop remove it
\* before the response does.
C32_InsertBeforeEnqueue ==
    /\ [](\A c \in Callers :
             pc[c] \in {"enqueue", "blocked", "await"} => EntryOrStopped(c))
    /\ [][\A g \in Gens :
             LineEnqueued(g) =>
                 \E c \in Callers :
                     /\ pc[c] \in {"enqueue", "blocked"}
                     /\ queue'[g] = Append(queue[g], RequestLine(c))
                     /\ EntryOrStopped(c)]_vars
    /\ [][\A c \in Callers :
             (pc[c] = "await" /\ SenderAlive(c) /\ ~SenderAlive(c)')
                 => \/ AttemptEnds(c)
                    \/ StopDrains]_vars

\* The worker has read a request and its response is with the reader thread,
\* while the caller still waits with its entry in the table.
C32_Witness ==
    \E c \in Callers, g \in Gens :
        /\ pc[c] = "await"
        /\ SenderAlive(c)
        /\ inbound[g] # << >>
        /\ DOMAIN Head(inbound[g]) = DOMAIN Response(0, TRUE, << >>)
        /\ Head(inbound[g]).id = id[c]

(***************************************************************************)
(* The decoder of the reader thread: responses, events, and lines of other *)
(* shapes from the peer, with one caller and a handler.                    *)
(***************************************************************************)
\* A response that also has a type field: serde ignores the unknown field.
TypedResponse(i) == [id |-> i, success |-> TRUE, error |-> << >>,
                     type |-> "status"]

\* An object with a type field and no data field (what JSON.stringify makes
\* of an event whose data is undefined).
BareEvent == [type |-> "status"]

\* Lines of mixed shape the peer behind transport g may write.
MixedLines(g) ==
    {TypedResponse(wire[g][n].id) : n \in 1..Len(wire[g])} \cup {BareEvent}

NextDecoder ==
    \/ CallerStep({"c1"})
    \/ \E g \in Gens : WriterWrite(g)
    \/ ReaderStep
    \/ EventStep
    \/ LogStep
    \/ \E g \in Gens : \E line \in MixedLines(g) :
           WorkerEmit(g, line) /\ line \in MixedLines(g)
    \/ StartStep({"s1"}, MaxStarts)

SpecDecoder == Init /\ [][NextDecoder]_vars

\* The line is a JSON object.
IsObject(line) == read_line(line) /\ "text" \notin DOMAIN line

\* The reader thread of transport g takes the next line in this step.
ReaderTakes(g) ==
    /\ readerAlive[g]
    /\ inbound[g] # << >>
    /\ inbound'[g] = Tail(inbound[g])

\* C33: each inbound line is classified response first: an object with id
\* and success is handled as a response (its pending entry, if any, is
\* removed and the handler is not invoked), also when it has a type;
\* otherwise an object with a type is handled as an event (the handler, if
\* set, is invoked and the pending table is unchanged); every other line
\* changes neither the pending table nor the handler's invocations.
C33_ResponseShapeFirst ==
    [][\A g \in Gens :
          ReaderTakes(g) =>
              LET line == Head(inbound[g])
              IN  IF IsObject(line) /\ {"id", "success"} \subseteq DOMAIN line
                  THEN /\ pending_requests' =
                              pending_remove(pending_requests, line.id)
                       /\ handled' = handled
                  ELSE IF IsObject(line) /\ "type" \in DOMAIN line
                  THEN /\ pending_requests' = pending_requests
                       /\ event_handler # 0
                              => Len(handled') = Len(handled) + 1
                  ELSE /\ pending_requests' = pending_requests
                       /\ handled' = handled]_vars

\* The classification as the code makes it: the event shape needs the data
\* field as well as the type.
EnvelopeShapeFirst ==
    [][\A g \in Gens :
          ReaderTakes(g) =>
              LET line == Head(inbound[g])
              IN  IF IsObject(line) /\ {"id", "success"} \subseteq DOMAIN line
                  THEN /\ pending_requests' =
                              pending_remove(pending_requests, line.id)
                       /\ handled' = handled
                  ELSE IF IsObject(line)
                          /\ {"type", "data"} \subseteq DOMAIN line
                  THEN /\ pending_requests' = pending_requests
                       /\ event_handler # 0
                              => handled' = Append(handled, <<g, line.data>>)
                  ELSE /\ pending_requests' = pending_requests
                       /\ handled' = handled]_vars

\* A response that has a type field too is with the reader thread while its
\* request is pending.
TypedResponsePending ==
    \E g \in Gens :
        /\ inbound[g] # << >>
        /\ Head(inbound[g]) \in MixedLines(g) \ {BareEvent}
        /\ Head(inbound[g]).id \in DOMAIN pending_requests

(***************************************************************************)
(* The health flag and the writer tasks of successive transports.          *)
(***************************************************************************)
\* The writer task of transport g ends on a failed write in this step.
WriteFails(g) == writerAlive[g] /\ ~writerAlive'[g] /\ queue[g] # << >>

\* C34: the health flag goes from true to false only by a write failure of
\* the writer task of the current transport, the one whose channel tx holds;
\* a write failure in the writer task of a superseded transport leaves it
\* true.
C34_HealthOfCurrentTransport ==
    [][(stdin_healthy /\ ~stdin_healthy')
           => \E g \in Gens : g = tx /\ WriteFails(g)]_vars

(***************************************************************************)
(* The mode and the writer channel.                                        *)
(***************************************************************************)
\* No call of start or stop is under way.
NoLifecycleCall == stopPc = "idle" /\ \A s \in Starters : spc[s] = "idle"

\* C35: outside the calls of start and stop, the mode is Disconnected only
\* when no writer channel is bound, and a bound writer channel implies an
\* active mode - also after is_running has found the embedded child exited.
C35_DisconnectedHasNoChannel ==
    NoLifecycleCall => (mode = "Disconnected" <=> tx = 0)

(***************************************************************************)
(* The reader thread of a stopped transport: one caller, the writer task,  *)
(* the daemon with its responses, and start, stop and start again one      *)
(* after the other, the daemon transport attaching each time.              *)
(***************************************************************************)
NextSuperseded ==
    \/ CallerStep({"c1"})
    \/ \E g \in Gens : WriterWrite(g)
    \/ ReaderStep
    \/ StartBeginAfterStop("s1")
    \/ StartDaemonAttach("s1", MaxTransports)
    \/ StopKillAfterStart
    \/ StopClear
    \/ StopDrain

SpecSuperseded == Init /\ [][NextSuperseded]_vars

\* The reader thread of transport g invokes the handler or removes an entry
\* of the pending table in this step.
ReaderFeeds(g) ==
    /\ ReaderTakes(g)
    /\ \/ pending_requests' # pending_requests
       \/ Len(handled') = Len(handled) + 1 /\ handled'[Len(handled')][1] = g

\* C36: after stop and a following start, only the reader thread of the
\* transport attached last feeds the handler and the pending table; the
\* reader thread of the stopped transport delivers no event and resolves no
\* pending entry.
C36_OneReaderFeeds ==
    [][\A g \in Gens : ReaderFeeds(g) => g = ngen]_vars

\* The half of C36 about the pending table: only the reader thread of the
\* transport attached last removes an entry.
OneReaderResolves ==
    [][\A g \in Gens :
          (ReaderTakes(g) /\ pending_requests' # pending_requests)
              => g = ngen]_vars

(***************************************************************************)
(* stop against a full writer channel: one caller with its retries, the    *)
(* writer task, which may stall in a blocking write, start and stop.       *)
(***************************************************************************)
NextStalledWriter ==
    \/ CallerStep({"c1"})
    \/ \E g \in Gens : WriterWrite(g)
    \/ \E g \in Gens : WriterFail(g)
    \/ StartStep({"s1"}, MaxStarts)
    \/ StopStep

\* stop is polled as the callers are: a step of it that is enabled is taken
\* at some time. A write to a peer that is gone does not block: it fails.
FairStop ==
    /\ WF_vars(StopClear)
    /\ WF_vars(StopDrain)
    /\ \A g \in Gens : WF_vars(WriterFail(g))

SpecStalledWriter ==
    Init /\ [][NextStalledWriter]_vars /\ FairCallers /\ FairStop

\* C37: stop always completes: a call of stop that has begun returns, also
\* when a send_command waits for space in the full writer channel, holding
\* the lock on tx, and the writer task is stalled in a blocking write.
C37_StopCompletes == (stopPc # "idle") ~> (stopPc = "idle")

(***************************************************************************)
(* Calls of send_command as the clock moves.                               *)
(***************************************************************************)
InitKeys ==
    /\ InitManager
    /\ EnvelopeIdle
    /\ VaultIdle
    /\ FilesIdle
    /\ ServiceIdle
    /\ EndpointIdle
    /\ StreamIdle
    /\ ClockIdle
    /\ KeychainIdle

NextKeys ==
    \/ \E t \in ClockValues : ClockMoves(t)
    \/ \E command \in CommandNames : SendCommandKey(command)

SpecKeys == InitKeys /\ [][NextKeys]_vars

\* C38: two distinct calls of send_command never carry the same idempotency
\* key, also when they have the same command and read the same microsecond
\* of the clock, or the clock fails and yields 0.
C38_DistinctKeys ==
    \A i, j \in 1..Len(keys) : i # j => keys[i] # keys[j]

(***************************************************************************)
(* The keychain-with-fallback backend: credentials_get, credentials_set    *)
(* and credentials_delete one after the other, with calls of the keychain  *)
(* and of the vault file that fail.                                        *)
(***************************************************************************)
KeyPairs == {<<<<"a">>, <<"c">>>>, <<<<"a">>, <<"b", ".", "c">>>>}
KeyValues == {<<"v">>, <<"w">>}

InitKeychain ==
    /\ InitManager
    /\ EnvelopeIdle
    /\ VaultIdle
    /\ FilesIdle
    /\ ServiceIdle
    /\ EndpointIdle
    /\ StreamIdle
    /\ ClockIdle
    /\ keychain = << >>
    /\ backend = "KeychainWithFallback"
    /\ kc_last = NoCommand
    /\ kc_n = 0

NextKeychain ==
    \/ \E pair \in KeyPairs, fail \in Failures :
           CredentialsGet(pair[1], pair[2], fail)
    \/ \E pair \in KeyPairs, value \in KeyValues, nonce \in Nonces,
          fail \in Failures :
           CredentialsSet(pair[1], pair[2], value, nonce, fail)
    \/ \E pair \in KeyPairs, fail \in Failures :
           CredentialsDelete(pair[1], pair[2], fail)

SpecKeychain == InitKeychain /\ [][NextKeychain]_vars

\* The command op returns in this step, right after a command before on the
\* same service and account that returned Ok; the vault file failed neither.
Follows(op, before) ==
    /\ kc_n' = kc_n + 1
    /\ kc_last'.op = op
    /\ kc_last.op = before
    /\ kc_last.result.ok
    /\ kc_last'.service = kc_last.service
    /\ kc_last'.account = kc_last.account
    /\ ~kc_last.fail.fb
    /\ ~kc_last'.fail.fb

\* C39: under the keychain-with-fallback backend, a get of k after a set of
\* k to v that returned Ok yields Some(v), and a get of k after a delete of
\* k that returned Ok yields None, whichever calls of the keychain failed.
C39_GetAfterSetAndDelete ==
    [][/\ Follows("get", "set")
           => kc_last'.result = Ok(Some(kc_last.value))
       /\ Follows("get", "delete")
           => kc_last'.result = Ok(None)]_vars

\* The same law for the gets whose keychain call works, too.
GetAfterSetAndDeleteKeychainRead ==
    [][~kc_last'.fail.kc =>
          /\ Follows("get", "set")
               => kc_last'.result = Ok(Some(kc_last.value))
          /\ Follows("get", "delete")
               => kc_last'.result = Ok(None)]_vars

(***************************************************************************)
(* The provider API key commands, one after the other, under either        *)
(* backend, with or without a key under the legacy account.                *)
(***************************************************************************)
ProviderInputs ==
    {Google, <<" ", "G", "e", "m", "i", "n", "i">>,
     <<"o", "p", "e", "n", "a", "i">>, <<"x">>}
ApiKeys == {<<"k">>, <<" ", "j">>, <<" ">>}
LegacyApiKey == <<"l">>

\* What an earlier version has left under the legacy account, if anything.
LegacyEntries(here) ==
    IF here
    THEN {<< >>, map_insert(<< >>, <<API_KEY_SERVICE, LEGACY_API_KEY_ACCOUNT>>,
                            LegacyApiKey)}
    ELSE {<< >>}
LegacyVaults(here) ==
    IF here
    THEN {<< >>,
          map_insert(<< >>, fallback_key(API_KEY_SERVICE, LEGACY_API_KEY_ACCOUNT),
                     encrypt_secret(LegacyApiKey, 0))}
    ELSE {<< >>}

InitProviders ==
    /\ InitManager
    /\ EnvelopeIdle
    /\ FilesIdle
    /\ ServiceIdle
    /\ EndpointIdle
    /\ StreamIdle
    /\ ClockIdle
    /\ backend \in {"VaultOnly", "KeychainWithFallback"}
    /\ keychain \in LegacyEntries(backend = "KeychainWithFallback")
    /\ vault_file \in LegacyVaults(backend = "VaultOnly")
    /\ kc_last = NoCommand
    /\ kc_n = 0
    /\ plaintext_file = None
    /\ cpc = [p \in Tasks |-> "idle"]
    /\ cop = [p \in Tasks |-> NoOp]
    /\ cstore = [p \in Tasks |-> << >>]
    /\ cresult = [p \in Tasks |-> Ok(None)]
    /\ nops = 0
    /\ seeds_out = {}
    /\ env_parent = None
    /\ child_env = None

NextProviders ==
    \/ \E provider_id \in ProviderInputs : GetProviderApiKey(provider_id, 0)
    \/ \E provider_id \in ProviderInputs, api_key \in ApiKeys :
           SetProviderApiKey(provider_id, api_key, 0)
    \/ \E provider_id \in ProviderInputs : DeleteProviderApiKey(provider_id)

SpecProviders == InitProviders /\ [][NextProviders]_vars

\* C40: a get_provider_api_key of p right after a delete_provider_api_key of
\* p that returned Ok returns None, for every provider - also for google when
\* there is a key under the legacy account.
C40_NoneAfterDelete ==
    [][( /\ kc_n' = kc_n + 1
         /\ kc_last'.op = "get_provider"
         /\ kc_last.op = "delete_provider"
         /\ kc_last.result.ok
         /\ normalize_provider_id(kc_last'.account)
                = normalize_provider_id(kc_last.account) )
           => kc_last'.result = Ok(None)]_vars

\* The same law for the providers other than google.
NoneAfterDeleteOtherProviders ==
    [][( /\ kc_n' = kc_n + 1
         /\ kc_last'.op = "get_provider"
         /\ kc_last.op = "delete_provider"
         /\ kc_last.result.ok
         /\ normalize_provider_id(kc_last'.account)
                = normalize_provider_id(kc_last.account)
         /\ normalize_provider_id(kc_last.account) # Ok(Google) )
           => kc_last'.result = Ok(None)]_vars

====
